---------------------------- MODULE Spec2Model ----------------------------
(***************************************************************************)
(* A model of the discord-mcp server: the JSON-RPC session over            *)
(* stdin/stdout (internal/mcp), the schema validator (internal/validation), *)
(* the permission checker (internal/permissions), the tool handlers         *)
(* (internal/handlers), the Discord client wrapper with its rate limiter    *)
(* (internal/discord) and the notification side channel                     *)
(* (internal/notifications, internal/discord/dispatcher.go).                *)
(*                                                                         *)
(* Go strings that are inspected character by character (tool arguments)   *)
(* are sequences of one-character strings; a Go interface{} value is a     *)
(* record tagged with its reflect.Kind.                                     *)
(***************************************************************************)
EXTENDS Integers, Sequences, FiniteSets, TLC

(***************************************************************************)
(* Bounds of the model.                                                     *)
(***************************************************************************)
MaxLines == 2      \* input lines the transport loop reads in one behaviour
MaxRegs == 2       \* RegisterTool calls made before serving
NumHandlers == 3   \* handlers of HandlerList that startup may register
MaxEvents == 1     \* gateway events delivered to each event callback

(***************************************************************************)
(* Go values: params.Arguments is a map[string]interface{} decoded by       *)
(* encoding/json, so a number is a float64; callers inside the program may  *)
(* also pass an int.  A number is kept as twice its value (h), so that a    *)
(* fractional .5 is representable with integers.                            *)
(***************************************************************************)
Nil == [k |-> "nil"]
StrV(s) == [k |-> "string", s |-> s]
FloatV(h) == [k |-> "float64", h |-> h]
IntV(n) == [k |-> "int", h |-> 2 * n]
BoolV(b) == [k |-> "bool", b |-> b]
SliceV(items) == [k |-> "slice", items |-> items]
MapV(m) == [k |-> "map", m |-> m]

NoArgs == <<>>

Digits == {"0", "1", "2", "3", "4", "5", "6", "7", "8", "9"}

(***************************************************************************)
(* Errors.  A Go nil error is NoErr; *ValidationError, *PermissionError and *)
(* plain fmt.Errorf errors are told apart by the tag, as the handlers' type *)
(* assertions tell them apart.  A runtime panic is an outcome of its own.   *)
(***************************************************************************)
NoErr == [kind |-> "nil"]
NoField == "<nil>"
PlainError(msg) == [kind |-> "error", msg |-> msg]
GoPanic(msg) == [kind |-> "panic", msg |-> msg]

NewValidationError(errorType, message, field) ==
    [kind |-> "validation", type |-> errorType, message |-> message, field |-> field]

Has(m, key) == key \in DOMAIN m

(***************************************************************************)
(* ToolSchemas (internal/validation/schemas.go).  An absent key of the Go   *)
(* map is an absent field of the record.  Descriptions and defaults, which  *)
(* the validator never reads, are left out except the defaults, which the   *)
(* handlers are compared against.                                           *)
(***************************************************************************)
SnowflakePattern == "^[0-9]+$"

SnowflakeProp == [type |-> "string", pattern |-> SnowflakePattern]

UrlObjectProp ==
    [type |-> "object",
     properties |-> [url |-> [type |-> "string", format |-> "uri"]],
     required |-> <<"url">>]

EmbedItemSchema ==
    [type |-> "object",
     properties |->
        [title |-> [type |-> "string", maxLength |-> 256],
         description |-> [type |-> "string", maxLength |-> 4096],
         color |-> [type |-> "integer", minimum |-> 0, maximum |-> 16777215],
         url |-> [type |-> "string", format |-> "uri"],
         thumbnail |-> UrlObjectProp,
         image |-> UrlObjectProp,
         fields |->
            [type |-> "array", maxItems |-> 25,
             items |->
                [type |-> "object",
                 properties |->
                    [name |-> [type |-> "string", maxLength |-> 256],
                     value |-> [type |-> "string", maxLength |-> 1024],
                     inline |-> [type |-> "boolean", default |-> FALSE]],
                 required |-> <<"name", "value">>]]]]

ChannelTypeEnum ==
    << <<"t", "e", "x", "t">>, <<"v", "o", "i", "c", "e">>,
       <<"c", "a", "t", "e", "g", "o", "r", "y">>,
       <<"a", "n", "n", "o", "u", "n", "c", "e", "m", "e", "n", "t">>,
       <<"s", "t", "a", "g", "e">>, <<"f", "o", "r", "u", "m">>,
       <<"m", "e", "d", "i", "a">> >>

ToolSchemas ==
    [send_message |->
        [type |-> "object",
         properties |->
            [channel_id |-> [type |-> "string", pattern |-> SnowflakePattern, minLength |-> 1],
             content |-> [type |-> "string", minLength |-> 1, maxLength |-> 2000],
             tts |-> [type |-> "boolean", default |-> FALSE],
             reply_to |-> SnowflakeProp,
             embeds |-> [type |-> "array", maxItems |-> 10, items |-> EmbedItemSchema]],
         required |-> <<"channel_id", "content">>],
     get_channel_messages |->
        [type |-> "object",
         properties |->
            [channel_id |-> SnowflakeProp,
             limit |-> [type |-> "integer", minimum |-> 1, maximum |-> 100, default |-> 50],
             before |-> SnowflakeProp,
             after |-> SnowflakeProp,
             around |-> SnowflakeProp],
         required |-> <<"channel_id">>,
         not |->
            [anyOf |->
                << [allOf |-> << [required |-> <<"before">>], [required |-> <<"after">>] >>],
                   [allOf |-> << [required |-> <<"before">>], [required |-> <<"around">>] >>],
                   [allOf |-> << [required |-> <<"after">>], [required |-> <<"around">>] >>] >>]],
     edit_message |->
        [type |-> "object",
         properties |->
            [channel_id |-> SnowflakeProp,
             message_id |-> SnowflakeProp,
             content |-> [type |-> "string", maxLength |-> 2000],
             embeds |-> [type |-> "array", maxItems |-> 10]],
         required |-> <<"channel_id", "message_id">>,
         anyOf |-> << [required |-> <<"content">>], [required |-> <<"embeds">>] >>],
     delete_message |->
        [type |-> "object",
         properties |->
            [channel_id |-> SnowflakeProp,
             message_id |-> SnowflakeProp,
             reason |-> [type |-> "string", maxLength |-> 512]],
         required |-> <<"channel_id", "message_id">>],
     add_reaction |->
        [type |-> "object",
         properties |->
            [channel_id |-> SnowflakeProp,
             message_id |-> SnowflakeProp,
             emoji |-> [type |-> "string"]],
         required |-> <<"channel_id", "message_id", "emoji">>],
     list_channels |->
        [type |-> "object",
         properties |->
            [guild_id |-> SnowflakeProp,
             type_filter |->
                [type |-> "array",
                 items |-> [type |-> "string", enum |-> ChannelTypeEnum],
                 uniqueItems |-> TRUE],
             include_permissions |-> [type |-> "boolean", default |-> FALSE]],
         required |-> <<"guild_id">>],
     get_channel_info |->
        [type |-> "object",
         properties |->
            [channel_id |-> SnowflakeProp,
             include_permissions |-> [type |-> "boolean", default |-> TRUE]],
         required |-> <<"channel_id">>],
     get_guild_info |->
        [type |-> "object",
         properties |->
            [guild_id |-> SnowflakeProp,
             include_counts |-> [type |-> "boolean", default |-> TRUE]],
         required |-> <<"guild_id">>],
     list_guild_members |->
        [type |-> "object",
         properties |-> [guild_id |-> SnowflakeProp],
         required |-> <<"guild_id">>],
     get_role_info |->
        [type |-> "object",
         properties |-> [guild_id |-> SnowflakeProp, role_id |-> SnowflakeProp],
         required |-> <<"guild_id", "role_id">>],
     create_role |->
        [type |-> "object",
         properties |-> [guild_id |-> SnowflakeProp, name |-> [type |-> "string"]],
         required |-> <<"guild_id", "name">>],
     delete_role |->
        [type |-> "object",
         properties |-> [guild_id |-> SnowflakeProp, role_id |-> SnowflakeProp],
         required |-> <<"guild_id", "role_id">>],
     assign_role |->
        [type |-> "object",
         properties |->
            [guild_id |-> SnowflakeProp, role_id |-> SnowflakeProp, user_id |-> SnowflakeProp],
         required |-> <<"guild_id", "role_id", "user_id">>],
     unassign_role |->
        [type |-> "object",
         properties |->
            [guild_id |-> SnowflakeProp, role_id |-> SnowflakeProp, user_id |-> SnowflakeProp],
         required |-> <<"guild_id", "role_id", "user_id">>],
     list_roles |->
        [type |-> "object",
         properties |-> [guild_id |-> SnowflakeProp],
         required |-> <<"guild_id">>]]

\* GetToolSchema: the (schema, exists) pair is the membership test below.
HasToolSchema(toolName) == toolName \in DOMAIN ToolSchemas

GetToolSchema(toolName) == ToolSchemas[toolName]

(***************************************************************************)
(* The regexp package, for the pattern strings the program can meet: the    *)
(* one pattern of ToolSchemas and a pattern that does not compile.          *)
(***************************************************************************)
BadPattern == "["

RegexpCompiles(pattern) == pattern = SnowflakePattern

RegexpCompile(pattern) == [src |-> pattern]

MatchString(regex, s) ==
    CASE regex.src = SnowflakePattern -> Len(s) >= 1 /\ \A i \in 1..Len(s) : s[i] \in Digits
      [] OTHER -> FALSE

(***************************************************************************)
(* Validator (internal/validation/validator.go).  The pattern cache         *)
(* v.patterns is threaded through the operators that can fill it: they      *)
(* return [err, pats].                                                      *)
(***************************************************************************)
isNumeric(value) == value.k \in {"int", "float64"}

isInteger(value) == value.k = "int"

\* getNumericValue, as twice the float64 the code computes
getNumericValue(value) == value.h

RECURSIVE FirstMissing(_, _, _)
FirstMissing(required, params, i) ==
    IF i > Len(required) THEN NoField
    ELSE IF ~Has(params, required[i]) THEN required[i]
    ELSE FirstMissing(required, params, i + 1)

\* validateRequired reporting the last missing field of the list
validateRequiredLast(schema, params) ==
    IF ~Has(schema, "required") THEN NoErr
    ELSE LET missing == {i \in 1..Len(schema.required) : ~Has(params, schema.required[i])}
         IN IF missing = {} THEN NoErr
            ELSE PlainError("required parameter '"
                              \o schema.required[CHOOSE i \in missing : \A j \in missing : j <= i]
                              \o "' is missing")

validateRequired(schema, params) ==
    IF ~Has(schema, "required") THEN NoErr
    ELSE LET missing == FirstMissing(schema.required, params, 1)
         IN IF missing = NoField THEN NoErr
            ELSE PlainError("required parameter '" \o missing \o "' is missing")

\* anyOf satisfied only when every one of its conditions is
validateConditionalsEvery(schema, params) ==
    IF Has(schema, "anyOf")
       /\ \E i \in 1..Len(schema.anyOf) : validateRequired(schema.anyOf[i], params) # NoErr
    THEN NewValidationError("conditional constraint",
             "at least one of the specified conditions must be met", NoField)
    ELSE NoErr

RECURSIVE validateConditionals(_, _)
validateConditionals(schema, params) ==
    LET anyOfErr ==
            IF Has(schema, "anyOf")
               /\ ~\E i \in 1..Len(schema.anyOf) :
                       validateRequired(schema.anyOf[i], params) = NoErr
            THEN NewValidationError("conditional constraint",
                     "at least one of the specified conditions must be met", NoField)
            ELSE NoErr
    IN IF anyOfErr # NoErr THEN anyOfErr
       ELSE IF Has(schema, "not") /\ validateConditionals(schema["not"], params) = NoErr
       THEN NewValidationError("conditional constraint",
                "the specified condition must not be satisfied", NoField)
       ELSE NoErr

\* getCompiledRegex storing the pattern before looking at the compile error
getCompiledRegexStoresFirst(pats, pattern) ==
    IF Has(pats, pattern) THEN [regex |-> pats[pattern], err |-> NoErr, pats |-> pats]
    ELSE IF ~RegexpCompiles(pattern)
    THEN [regex |-> Nil, err |-> PlainError("error parsing regexp"),
          pats |-> (pattern :> RegexpCompile(pattern)) @@ pats]
    ELSE [regex |-> RegexpCompile(pattern), err |-> NoErr,
          pats |-> (pattern :> RegexpCompile(pattern)) @@ pats]

getCompiledRegex(pats, pattern) ==
    IF Has(pats, pattern) THEN [regex |-> pats[pattern], err |-> NoErr, pats |-> pats]
    ELSE IF ~RegexpCompiles(pattern)
    THEN [regex |-> Nil, err |-> PlainError("error parsing regexp"), pats |-> pats]
    ELSE [regex |-> RegexpCompile(pattern), err |-> NoErr,
          pats |-> (pattern :> RegexpCompile(pattern)) @@ pats]

validateType(paramName, value, schema) ==
    IF ~Has(schema, "type") THEN NoErr
    ELSE IF value = Nil THEN NewValidationError("null value", "cannot be null", paramName)
    ELSE LET mismatch(what) == NewValidationError("type mismatch", what, paramName)
         IN CASE schema.type = "string" ->
                    IF value.k # "string" THEN mismatch("must be a string") ELSE NoErr
              [] schema.type = "integer" ->
                    IF ~isInteger(value) THEN mismatch("must be an integer") ELSE NoErr
              [] schema.type = "number" ->
                    IF ~isNumeric(value) THEN mismatch("must be a number") ELSE NoErr
              [] schema.type = "boolean" ->
                    IF value.k # "bool" THEN mismatch("must be a boolean") ELSE NoErr
              [] schema.type = "array" ->
                    IF value.k # "slice" THEN mismatch("must be an array") ELSE NoErr
              [] schema.type = "object" ->
                    IF value.k # "map" THEN mismatch("must be an object") ELSE NoErr
              [] OTHER -> NoErr

validateEnum(paramName, s, schema) ==
    IF Has(schema, "enum") /\ ~\E i \in 1..Len(schema.enum) : schema.enum[i] = s
    THEN NewValidationError("enum constraint", "must be one of the enum", paramName)
    ELSE NoErr

validateString(pats, paramName, s, schema) ==
    LET Compiled(c) ==
            IF c.err # NoErr
            THEN [err |-> NewValidationError("pattern error", "invalid regex pattern", paramName),
                  pats |-> c.pats]
            ELSE IF ~MatchString(c.regex, s)
            THEN [err |-> NewValidationError("pattern mismatch", schema.pattern, paramName),
                  pats |-> c.pats]
            ELSE [err |-> validateEnum(paramName, s, schema), pats |-> c.pats]
    IN IF Has(schema, "minLength") /\ Len(s) < schema.minLength
       THEN [err |-> NewValidationError("length constraint", "too short", paramName),
             pats |-> pats]
       ELSE IF Has(schema, "maxLength") /\ Len(s) > schema.maxLength
       THEN [err |-> NewValidationError("length constraint", "too long", paramName),
             pats |-> pats]
       ELSE IF Has(schema, "pattern") THEN Compiled(getCompiledRegex(pats, schema.pattern))
       ELSE [err |-> validateEnum(paramName, s, schema), pats |-> pats]

validateNumeric(paramName, value, schema) ==
    LET numValue == getNumericValue(value)
    IN IF Has(schema, "minimum") /\ numValue < 2 * schema.minimum
       THEN NewValidationError("range constraint", "below minimum", paramName)
       ELSE IF Has(schema, "maximum") /\ numValue > 2 * schema.maximum
       THEN NewValidationError("range constraint", "above maximum", paramName)
       ELSE NoErr

\* The uniqueItems loop: seen is a map[interface{}]bool, and indexing it with a
\* slice or a map panics ("hash of unhashable type").
RECURSIVE uniqueItemsCheck(_, _, _, _)
uniqueItemsCheck(paramName, items, i, seen) ==
    IF i > Len(items) THEN NoErr
    ELSE IF items[i].k \in {"slice", "map"} THEN GoPanic("hash of unhashable type")
    ELSE IF items[i] \in seen
    THEN NewValidationError("uniqueness constraint", "contains duplicate items", paramName)
    ELSE uniqueItemsCheck(paramName, items, i + 1, seen \cup {items[i]})

validateObject(paramName, value, schema) ==
    IF value.k # "map"
    THEN NewValidationError("type mismatch", "must be an object", paramName)
    ELSE NoErr

RECURSIVE validateParameter(_, _, _, _)
RECURSIVE validateItems(_, _, _, _, _)

validateItems(pats, paramName, items, itemSchema, i) ==
    LET Validated(r) ==
            IF r.err # NoErr THEN r
            ELSE validateItems(r.pats, paramName, items, itemSchema, i + 1)
    IN IF i > Len(items) THEN [err |-> NoErr, pats |-> pats]
       ELSE Validated(validateParameter(pats, paramName \o "[" \o ToString(i - 1) \o "]",
                                        items[i], itemSchema))

validateArray(pats, paramName, value, schema) ==
    LET length == Len(value.items)
        uniqueErr == IF Has(schema, "uniqueItems") /\ schema.uniqueItems = TRUE
                     THEN uniqueItemsCheck(paramName, value.items, 1, {})
                     ELSE NoErr
    IN IF Has(schema, "minItems") /\ length < schema.minItems
       THEN [err |-> NewValidationError("array constraint", "too few items", paramName),
             pats |-> pats]
       ELSE IF Has(schema, "maxItems") /\ length > schema.maxItems
       THEN [err |-> NewValidationError("array constraint", "too many items", paramName),
             pats |-> pats]
       ELSE IF uniqueErr # NoErr THEN [err |-> uniqueErr, pats |-> pats]
       ELSE IF Has(schema, "items")
       THEN validateItems(pats, paramName, value.items, schema.items, 1)
       ELSE [err |-> NoErr, pats |-> pats]

validateParameter(pats, paramName, value, schema) ==
    LET AfterArray(arrRes) ==
            IF arrRes.err # NoErr THEN arrRes
            ELSE [err |-> IF value.k = "map" THEN validateObject(paramName, value, schema)
                          ELSE NoErr,
                  pats |-> arrRes.pats]
        AfterNumeric(numErr, pats1) ==
            IF numErr # NoErr THEN [err |-> numErr, pats |-> pats1]
            ELSE AfterArray(IF value.k = "slice"
                            THEN validateArray(pats1, paramName, value, schema)
                            ELSE [err |-> NoErr, pats |-> pats1])
        AfterString(strRes) ==
            IF strRes.err # NoErr THEN strRes
            ELSE AfterNumeric(IF isNumeric(value) THEN validateNumeric(paramName, value, schema)
                              ELSE NoErr,
                              strRes.pats)
        AfterType(typeErr) ==
            IF typeErr # NoErr THEN [err |-> typeErr, pats |-> pats]
            ELSE AfterString(IF value.k = "string"
                             THEN validateString(pats, paramName, value.s, schema)
                             ELSE [err |-> NoErr, pats |-> pats])
    IN AfterType(validateType(paramName, value, schema))

\* The loop over params passing over the fields the schema does not declare
RECURSIVE validateEachDeclared(_, _, _, _, _)
validateEachDeclared(pats, properties, params, order, i) ==
    LET Validated(r) ==
            IF r.err # NoErr THEN r
            ELSE validateEachDeclared(r.pats, properties, params, order, i + 1)
    IN IF i > Len(order) THEN [err |-> NoErr, pats |-> pats]
       ELSE IF ~Has(properties, order[i])
       THEN validateEachDeclared(pats, properties, params, order, i + 1)
       ELSE Validated(validateParameter(pats, order[i], params[order[i]],
                                        properties[order[i]]))

\* The loop "for paramName, value := range params": Go ranges over a map in
\* an unspecified order, given here as the sequence order of the keys.
RECURSIVE validateEach(_, _, _, _, _)
validateEach(pats, properties, params, order, i) ==
    LET Validated(r) ==
            IF r.err # NoErr THEN r
            ELSE validateEach(r.pats, properties, params, order, i + 1)
    IN IF i > Len(order) THEN [err |-> NoErr, pats |-> pats]
       ELSE IF ~Has(properties, order[i])
       THEN [err |-> NewValidationError("unknown parameter",
                         "parameter '" \o order[i] \o "' is not defined", order[i]),
             pats |-> pats]
       ELSE Validated(validateParameter(pats, order[i], params[order[i]],
                                        properties[order[i]]))

\* ValidateToolParams against a schema map that was found
ValidateSchema(pats, schemaMap, params, order) ==
    LET AfterEach(each) ==
            IF each.err # NoErr THEN each
            ELSE [err |-> validateConditionals(schemaMap, params), pats |-> each.pats]
        AfterRequired(reqErr) ==
            IF reqErr # NoErr
            THEN [err |-> NewValidationError("missing required parameter", reqErr.msg, NoField),
                  pats |-> pats]
            ELSE AfterEach(IF Has(schemaMap, "properties")
                           THEN validateEach(pats, schemaMap.properties, params, order, 1)
                           ELSE [err |-> NoErr, pats |-> pats])
    IN AfterRequired(validateRequired(schemaMap, params))

ValidateToolParams(pats, toolName, params, order) ==
    IF ~HasToolSchema(toolName)
    THEN [err |-> PlainError("no schema found for tool"), pats |-> pats]
    ELSE ValidateSchema(pats, GetToolSchema(toolName), params, order)

\* The orders in which a range over the map m can visit its keys
RangeOrders(m) ==
    LET n == Cardinality(DOMAIN m)
    IN {o \in [1..n -> DOMAIN m] : \A i, j \in 1..n : i # j => o[i] # o[j]}

(***************************************************************************)
(* Capability bitmasks.  The permission bits are discordgo's constants;     *)
(* the checker tests them with a bitwise AND and the guild mask is a         *)
(* bitwise OR of role masks.                                                 *)
(***************************************************************************)
PermissionAddReactions == 64
PermissionViewChannel == 1024
PermissionSendMessages == 2048
PermissionSendTTSMessages == 4096
PermissionManageMessages == 8192
PermissionEmbedLinks == 16384
PermissionAttachFiles == 32768
PermissionReadMessageHistory == 65536
PermissionMentionEveryone == 131072
PermissionUseExternalEmojis == 262144
PermissionManageRoles == 268435456

RECURSIVE BitAnd(_, _)
BitAnd(a, b) ==
    IF a = 0 \/ b = 0 THEN 0
    ELSE (a % 2) * (b % 2) + 2 * BitAnd(a \div 2, b \div 2)

RECURSIVE BitOr(_, _)
BitOr(a, b) ==
    IF a = 0 THEN b
    ELSE IF b = 0 THEN a
    ELSE (IF a % 2 = 1 \/ b % 2 = 1 THEN 1 ELSE 0) + 2 * BitOr(a \div 2, b \div 2)

(***************************************************************************)
(* The remote service as the discordgo session shows it.  The entities are  *)
(* fixed; what varies with the world record w of a state is the bot's mask  *)
(* in guild channels, the roles the bot member holds and each role's mask.  *)
(*   channel 1: a text channel of guild 7      channel 2: a DM channel       *)
(*   channel 3: a text channel of guild 8      any other channel: unknown    *)
(*   message 5: written by the bot             message 6: by another user    *)
(***************************************************************************)
BotID == <<"4", "2">>
OtherUserID == <<"4", "3">>
Chan1 == <<"1">>
Chan2 == <<"2">>
Chan3 == <<"3">>
Guild7 == <<"7">>
Guild8 == <<"8">>
Msg5 == <<"5">>
Msg6 == <<"6">>
NoGuild == <<>>

RemoteChannels == (Chan1 :> Guild7) @@ (Chan2 :> NoGuild) @@ (Chan3 :> Guild8)
RemoteMessages == (Msg5 :> BotID) @@ (Msg6 :> OtherUserID)
RemoteGuilds == {Guild7, Guild8}

(***************************************************************************)
(* The context c of one handler execution: the client's fields it reads     *)
(* (connected, the clock, the limiter, allowed_guilds), the world, the set  *)
(* fails of session calls (by their number in this execution) that the      *)
(* remote service fails, and what the execution did so far: reqs is the     *)
(* limiter's request list, calls the calls made, in order.                  *)
(***************************************************************************)
Record(c, call) == [c EXCEPT !.calls = Append(@, call)]

\* A call of the discordgo session: it fails when the remote service fails it
SessionCall(c, op, arg) ==
    LET n == c.nsess + 1
    IN [c |-> [Record(c, <<"session", op, arg>>) EXCEPT !.nsess = n],
        failed |-> n \in c.fails]

(***************************************************************************)
(* rateLimiter.Allow (internal/discord/client.go)                           *)
(***************************************************************************)
Window == 2

\* Allow appending the time of the call whether or not it is granted
AllowResultCountsDenied(requests, maxReqs, now) ==
    LET cutoff == now - Window
        validReqs == SelectSeq(requests, LAMBDA req : req > cutoff)
    IN IF Len(validReqs) >= maxReqs
       THEN [ok |-> FALSE, requests |-> Append(validReqs, now)]
       ELSE [ok |-> TRUE, requests |-> Append(validReqs, now)]

AllowResult(requests, maxReqs, now) ==
    LET cutoff == now - Window
        validReqs == SelectSeq(requests, LAMBDA req : req > cutoff)
    IN IF Len(validReqs) >= maxReqs
       THEN [ok |-> FALSE, requests |-> validReqs]
       ELSE [ok |-> TRUE, requests |-> Append(validReqs, now)]

Allow(c) ==
    LET r == AllowResult(c.reqs, c.maxReqs, c.now)
    IN [ok |-> r.ok, c |-> [c EXCEPT !.reqs = r.requests]]

isGuildAllowed(c, guildID) ==
    \/ Len(c.allowedGuilds) = 0
    \/ \E i \in 1..Len(c.allowedGuilds) : c.allowedGuilds[i] = guildID

IsConnected(c) == c.connected

\* config.Discord.MaxMessageLength, scaled down
MaxMessageLength == 2

\* GetBotUser answering whatever the limiter says
GetBotUserUnlimited(c) ==
    LET Allowed(a) == [err |-> NoErr, c |-> a.c]
    IN IF ~IsConnected(c)
       THEN [err |-> PlainError("not connected to Discord"),
             c |-> Record(c, <<"client", "GetBotUser">>)]
       ELSE Allowed(Allow(Record(c, <<"client", "GetBotUser">>)))

GetBotUser(c) ==
    LET Allowed(a) ==
            IF ~a.ok THEN [err |-> PlainError("rate limit exceeded"), c |-> a.c]
            ELSE [err |-> NoErr, c |-> a.c]
    IN IF ~IsConnected(c)
       THEN [err |-> PlainError("not connected to Discord"),
             c |-> Record(c, <<"client", "GetBotUser">>)]
       ELSE Allowed(Allow(Record(c, <<"client", "GetBotUser">>)))

GetGuild(c, guildID) ==
    LET Fetched(s) ==
            IF s.failed \/ guildID \notin RemoteGuilds
            THEN [err |-> PlainError("failed to get guild"), c |-> s.c]
            ELSE [err |-> NoErr, c |-> s.c]
        Allowed(a) ==
            IF ~a.ok THEN [err |-> PlainError("rate limit exceeded"), c |-> a.c]
            ELSE IF ~isGuildAllowed(a.c, guildID)
            THEN [err |-> PlainError("access to guild is not allowed"), c |-> a.c]
            ELSE Fetched(SessionCall(a.c, "Guild", guildID))
    IN IF ~IsConnected(c)
       THEN [err |-> PlainError("not connected to Discord"),
             c |-> Record(c, <<"client", "GetGuild">>)]
       ELSE Allowed(Allow(Record(c, <<"client", "GetGuild">>)))

GetChannels(c, guildID) ==
    LET Fetched(s) ==
            IF s.failed \/ guildID \notin RemoteGuilds
            THEN [err |-> PlainError("failed to get channels"), c |-> s.c]
            ELSE [err |-> NoErr, c |-> s.c]
        Allowed(a) ==
            IF ~a.ok THEN [err |-> PlainError("rate limit exceeded"), c |-> a.c]
            ELSE IF ~isGuildAllowed(a.c, guildID)
            THEN [err |-> PlainError("access to guild is not allowed"), c |-> a.c]
            ELSE Fetched(SessionCall(a.c, "GuildChannels", guildID))
    IN IF ~IsConnected(c)
       THEN [err |-> PlainError("not connected to Discord"),
             c |-> Record(c, <<"client", "GetChannels">>)]
       ELSE Allowed(Allow(Record(c, <<"client", "GetChannels">>)))

\* SendMessage asking the limiter before it looks at the connection
SendMessageLimiterFirst(c, channelID, content) ==
    LET Sent(s) ==
            IF s.failed THEN [err |-> PlainError("failed to send message"), c |-> s.c]
            ELSE [err |-> NoErr, c |-> s.c]
        Allowed(a) ==
            IF ~IsConnected(a.c) THEN [err |-> PlainError("not connected to Discord"), c |-> a.c]
            ELSE IF ~a.ok THEN [err |-> PlainError("rate limit exceeded"), c |-> a.c]
            ELSE IF Len(content) > MaxMessageLength
            THEN [err |-> PlainError("message exceeds maximum length"), c |-> a.c]
            ELSE Sent(SessionCall(a.c, "ChannelMessageSend", channelID))
    IN Allowed(Allow(Record(c, <<"client", "SendMessage">>)))

SendMessage(c, channelID, content) ==
    LET Sent(s) ==
            IF s.failed THEN [err |-> PlainError("failed to send message"), c |-> s.c]
            ELSE [err |-> NoErr, c |-> s.c]
        Allowed(a) ==
            IF ~a.ok THEN [err |-> PlainError("rate limit exceeded"), c |-> a.c]
            ELSE IF Len(content) > MaxMessageLength
            THEN [err |-> PlainError("message exceeds maximum length"), c |-> a.c]
            ELSE Sent(SessionCall(a.c, "ChannelMessageSend", channelID))
    IN IF ~IsConnected(c)
       THEN [err |-> PlainError("not connected to Discord"),
             c |-> Record(c, <<"client", "SendMessage">>)]
       ELSE Allowed(Allow(Record(c, <<"client", "SendMessage">>)))

GetChannelMessages(c, channelID, limit) ==
    LET Fetched(s) ==
            IF s.failed THEN [err |-> PlainError("failed to get channel messages"), c |-> s.c]
            ELSE [err |-> NoErr, c |-> s.c]
        Allowed(a) ==
            IF ~a.ok THEN [err |-> PlainError("rate limit exceeded"), c |-> a.c]
            ELSE Fetched(SessionCall(a.c, "ChannelMessages",
                                     <<channelID, IF limit > 100 THEN 100 ELSE limit>>))
    IN IF ~IsConnected(c)
       THEN [err |-> PlainError("not connected to Discord"),
             c |-> Record(c, <<"client", "GetChannelMessages">>)]
       ELSE Allowed(Allow(Record(c, <<"client", "GetChannelMessages">>)))

ClientPing(c) ==
    IF ~IsConnected(c)
    THEN [err |-> PlainError("not connected to Discord"), c |-> Record(c, <<"client", "Ping">>)]
    ELSE GetBotUser(Record(c, <<"client", "Ping">>))

(***************************************************************************)
(* Checker (internal/permissions/checker.go).  Every method returns         *)
(* [err, c], the helpers that resolve a mask [err, c, permissions].         *)
(***************************************************************************)
NewPermissionError(operation, permission, resource, description) ==
    [kind |-> "perm", operation |-> operation, permission |-> permission,
     resource |-> resource, description |-> description]

DMPermissions ==
    BitOr(PermissionSendMessages, BitOr(PermissionReadMessageHistory, PermissionAddReactions))

getChannelInfo(c, channelID) ==
    LET s == SessionCall(c, "Channel", channelID)
    IN IF s.failed \/ channelID \notin DOMAIN RemoteChannels
       THEN [err |-> PlainError("failed to get channel info"), c |-> s.c, guildID |-> NoGuild]
       ELSE [err |-> NoErr, c |-> s.c, guildID |-> RemoteChannels[channelID]]

getMessageInfo(c, channelID, messageID) ==
    LET s == SessionCall(c, "ChannelMessage", <<channelID, messageID>>)
    IN IF s.failed \/ messageID \notin DOMAIN RemoteMessages
       THEN [err |-> PlainError("failed to get message info"), c |-> s.c, author |-> <<>>]
       ELSE [err |-> NoErr, c |-> s.c, author |-> RemoteMessages[messageID]]

getUserChannelPermissions(c, channelID) ==
    LET Resolved(s) ==
            IF s.failed
            THEN [err |-> PlainError("failed to get channel permissions"),
                  c |-> s.c, permissions |-> 0]
            ELSE [err |-> NoErr, c |-> s.c, permissions |-> s.c.world.mask]
        WithChannel(ch) ==
            IF ch.err # NoErr THEN [err |-> ch.err, c |-> ch.c, permissions |-> 0]
            ELSE IF ch.guildID = NoGuild
            THEN [err |-> NoErr, c |-> ch.c, permissions |-> DMPermissions]
            ELSE Resolved(SessionCall(ch.c, "UserChannelPermissions", channelID))
        WithBotUser(b) ==
            IF b.err # NoErr
            THEN [err |-> PlainError("failed to get bot user"), c |-> b.c, permissions |-> 0]
            ELSE WithChannel(getChannelInfo(b.c, channelID))
    IN WithBotUser(GetBotUser(c))

\* The channel check passing on any non-empty mask
CanChannelAnyBit(c, channelID, bit, operation, permission) ==
    LET Decide(p) ==
            IF p.err # NoErr THEN [err |-> p.err, c |-> p.c]
            ELSE IF p.permissions = 0
            THEN [err |-> NewPermissionError(operation, permission, <<"channel", channelID>>,
                              "Bot lacks " \o permission),
                  c |-> p.c]
            ELSE [err |-> NoErr, c |-> p.c]
    IN Decide(getUserChannelPermissions(Record(c, <<"check", operation>>), channelID))

\* The shape shared by the single-capability channel checks
CanChannel(c, channelID, bit, operation, permission) ==
    LET Decide(p) ==
            IF p.err # NoErr THEN [err |-> p.err, c |-> p.c]
            ELSE IF BitAnd(p.permissions, bit) = 0
            THEN [err |-> NewPermissionError(operation, permission, <<"channel", channelID>>,
                              "Bot lacks " \o permission),
                  c |-> p.c]
            ELSE [err |-> NoErr, c |-> p.c]
    IN Decide(getUserChannelPermissions(Record(c, <<"check", operation>>), channelID))

CanSendMessages(c, channelID) ==
    CanChannel(c, channelID, PermissionSendMessages, "send_message", "SEND_MESSAGES")

\* CanSendTTSMessages testing the bit of SEND_MESSAGES
CanSendTTSMessagesAsSend(c, channelID) ==
    CanChannel(c, channelID, PermissionSendMessages, "send_tts_message", "SEND_TTS_MESSAGES")

CanSendTTSMessages(c, channelID) ==
    CanChannel(c, channelID, PermissionSendTTSMessages, "send_tts_message", "SEND_TTS_MESSAGES")

CanReadMessageHistory(c, channelID) ==
    CanChannel(c, channelID, PermissionReadMessageHistory, "read_messages", "READ_MESSAGE_HISTORY")

CanManageMessages(c, channelID) ==
    CanChannel(c, channelID, PermissionManageMessages, "manage_messages", "MANAGE_MESSAGES")

CanAddReactions(c, channelID) ==
    CanChannel(c, channelID, PermissionAddReactions, "add_reaction", "ADD_REACTIONS")

CanUseExternalEmojis(c, channelID) ==
    CanChannel(c, channelID, PermissionUseExternalEmojis, "use_external_emoji", "USE_EXTERNAL_EMOJIS")

CanViewChannel(c, channelID) ==
    CanChannel(c, channelID, PermissionViewChannel, "view_channel", "VIEW_CHANNEL")

CanViewGuild(c, guildID) ==
    LET Decide(g) ==
            IF g.err # NoErr
            THEN [err |-> NewPermissionError("view_guild", "GUILD_ACCESS", <<"guild", guildID>>,
                              "Bot does not have access to this guild"),
                  c |-> g.c]
            ELSE [err |-> NoErr, c |-> g.c]
    IN Decide(GetGuild(Record(c, <<"check", "view_guild">>), guildID))

\* The loop keeping the mask of the role it visited last
RECURSIVE orRolesLast(_, _, _)
orRolesLast(c, i, permissions) ==
    IF i > Len(c.world.roles) THEN [err |-> NoErr, c |-> c, permissions |-> permissions]
    ELSE IF c.world.roles[i] \notin DOMAIN c.world.rolePerms
    THEN [err |-> PlainError("failed to get role info"),
          c |-> Record(c, <<"state", "Role", c.world.roles[i]>>), permissions |-> 0]
    ELSE orRolesLast(Record(c, <<"state", "Role", c.world.roles[i]>>), i + 1,
                     c.world.rolePerms[c.world.roles[i]])

\* The loop over member.Roles: State.Role fails for a role the state cache
\* does not hold
RECURSIVE orRoles(_, _, _)
orRoles(c, i, permissions) ==
    IF i > Len(c.world.roles) THEN [err |-> NoErr, c |-> c, permissions |-> permissions]
    ELSE IF c.world.roles[i] \notin DOMAIN c.world.rolePerms
    THEN [err |-> PlainError("failed to get role info"),
          c |-> Record(c, <<"state", "Role", c.world.roles[i]>>), permissions |-> 0]
    ELSE orRoles(Record(c, <<"state", "Role", c.world.roles[i]>>), i + 1,
                 BitOr(permissions, c.world.rolePerms[c.world.roles[i]]))

getBotGuildPermissions(c, guildID) ==
    LET WithMember(m) ==
            IF m.failed
            THEN [err |-> PlainError("failed to get bot member info"),
                  c |-> m.c, permissions |-> 0]
            ELSE orRoles(m.c, 1, 0)
        \* State.Member misses when the member is not cached; then the member
        \* is fetched from the remote service
        Member(st) ==
            IF st.world.memberCached THEN WithMember([c |-> st, failed |-> FALSE])
            ELSE WithMember(SessionCall(st, "GuildMember", guildID))
        WithGuild(g) ==
            IF g.err # NoErr THEN [err |-> g.err, c |-> g.c, permissions |-> 0]
            ELSE Member(Record(g.c, <<"state", "Member", guildID>>))
        WithBotUser(b) ==
            IF b.err # NoErr
            THEN [err |-> PlainError("failed to get bot user"), c |-> b.c, permissions |-> 0]
            ELSE WithGuild(GetGuild(b.c, guildID))
    IN WithBotUser(GetBotUser(c))

CanManageRoles(c, guildID) ==
    LET Decide(p) ==
            IF p.err # NoErr THEN [err |-> p.err, c |-> p.c]
            ELSE IF BitAnd(p.permissions, PermissionManageRoles) = 0
            THEN [err |-> NewPermissionError("manage_roles", "MANAGE_ROLES",
                              <<"guild", guildID>>, "Bot cannot manage roles in this guild"),
                  c |-> p.c]
            ELSE [err |-> NoErr, c |-> p.c]
    IN Decide(getBotGuildPermissions(Record(c, <<"check", "manage_roles">>), guildID))

\* CanEditMessage without the ownership branch
CanEditMessageNoOwnership(c, channelID, messageID) ==
    LET Decide(permissions, author, b) ==
            IF b.err # NoErr
            THEN [err |-> PlainError("failed to get bot user info"), c |-> b.c]
            ELSE IF BitAnd(permissions, PermissionManageMessages) = 0
            THEN [err |-> NewPermissionError("edit_others_message", "MANAGE_MESSAGES",
                              <<"message", messageID>>,
                              "Bot cannot edit other users' messages without MANAGE_MESSAGES permission"),
                  c |-> b.c]
            ELSE [err |-> NoErr, c |-> b.c]
        WithMessage(permissions, m) ==
            IF m.err # NoErr THEN [err |-> m.err, c |-> m.c]
            ELSE Decide(permissions, m.author, GetBotUser(m.c))
        WithPermissions(p) ==
            IF p.err # NoErr THEN [err |-> p.err, c |-> p.c]
            ELSE WithMessage(p.permissions, getMessageInfo(p.c, channelID, messageID))
    IN WithPermissions(getUserChannelPermissions(Record(c, <<"check", "edit_message">>),
                                                 channelID))

CanEditMessage(c, channelID, messageID) ==
    LET Decide(permissions, author, b) ==
            IF b.err # NoErr
            THEN [err |-> PlainError("failed to get bot user info"), c |-> b.c]
            ELSE IF author = BotID
            THEN IF BitAnd(permissions, PermissionSendMessages) = 0
                 THEN [err |-> NewPermissionError("edit_own_message", "SEND_MESSAGES",
                                   <<"message", messageID>>,
                                   "Bot cannot edit its own messages without SEND_MESSAGES permission"),
                       c |-> b.c]
                 ELSE [err |-> NoErr, c |-> b.c]
            ELSE IF BitAnd(permissions, PermissionManageMessages) = 0
            THEN [err |-> NewPermissionError("edit_others_message", "MANAGE_MESSAGES",
                              <<"message", messageID>>,
                              "Bot cannot edit other users' messages without MANAGE_MESSAGES permission"),
                  c |-> b.c]
            ELSE [err |-> NoErr, c |-> b.c]
        WithMessage(permissions, m) ==
            IF m.err # NoErr THEN [err |-> m.err, c |-> m.c]
            ELSE Decide(permissions, m.author, GetBotUser(m.c))
        WithPermissions(p) ==
            IF p.err # NoErr THEN [err |-> p.err, c |-> p.c]
            ELSE WithMessage(p.permissions, getMessageInfo(p.c, channelID, messageID))
    IN WithPermissions(getUserChannelPermissions(Record(c, <<"check", "edit_message">>),
                                                 channelID))

\* CanDeleteMessage without the ownership branch
CanDeleteMessageNoOwnership(c, channelID, messageID) ==
    LET Decide(permissions, author, b) ==
            IF b.err # NoErr
            THEN [err |-> PlainError("failed to get bot user info"), c |-> b.c]
            ELSE IF BitAnd(permissions, PermissionManageMessages) = 0
            THEN [err |-> NewPermissionError("delete_others_message", "MANAGE_MESSAGES",
                              <<"message", messageID>>,
                              "Bot cannot delete other users' messages without MANAGE_MESSAGES permission"),
                  c |-> b.c]
            ELSE [err |-> NoErr, c |-> b.c]
        WithMessage(permissions, m) ==
            IF m.err # NoErr THEN [err |-> m.err, c |-> m.c]
            ELSE Decide(permissions, m.author, GetBotUser(m.c))
        WithPermissions(p) ==
            IF p.err # NoErr THEN [err |-> p.err, c |-> p.c]
            ELSE WithMessage(p.permissions, getMessageInfo(p.c, channelID, messageID))
    IN WithPermissions(getUserChannelPermissions(Record(c, <<"check", "delete_message">>),
                                                 channelID))

CanDeleteMessage(c, channelID, messageID) ==
    LET Decide(permissions, author, b) ==
            IF b.err # NoErr
            THEN [err |-> PlainError("failed to get bot user info"), c |-> b.c]
            ELSE IF author = BotID THEN [err |-> NoErr, c |-> b.c]
            ELSE IF BitAnd(permissions, PermissionManageMessages) = 0
            THEN [err |-> NewPermissionError("delete_others_message", "MANAGE_MESSAGES",
                              <<"message", messageID>>,
                              "Bot cannot delete other users' messages without MANAGE_MESSAGES permission"),
                  c |-> b.c]
            ELSE [err |-> NoErr, c |-> b.c]
        WithMessage(permissions, m) ==
            IF m.err # NoErr THEN [err |-> m.err, c |-> m.c]
            ELSE Decide(permissions, m.author, GetBotUser(m.c))
        WithPermissions(p) ==
            IF p.err # NoErr THEN [err |-> p.err, c |-> p.c]
            ELSE WithMessage(p.permissions, getMessageInfo(p.c, channelID, messageID))
    IN WithPermissions(getUserChannelPermissions(Record(c, <<"check", "delete_message">>),
                                                 channelID))

isExternalEmoji(emoji) ==
    Len(emoji) > 2 /\ emoji[1] = "<" /\ emoji[Len(emoji)] = ">"

\* ValidateMessageOperation going to the operation's checks at once
ValidateMessageOperationNoView(c, operation, channelID, extraData) ==
    LET strOf(key) == Has(extraData, key) /\ extraData[key].k = "string"
        AfterSend(s) ==
            IF s.err # NoErr THEN s
            ELSE IF Has(extraData, "tts") /\ extraData.tts.k = "bool" /\ extraData.tts.b
            THEN CanSendTTSMessages(s.c, channelID)
            ELSE s
        AfterReact(a) ==
            IF a.err # NoErr THEN a
            ELSE IF strOf("emoji") /\ isExternalEmoji(extraData.emoji.s)
            THEN CanUseExternalEmojis(a.c, channelID)
            ELSE a
        AfterView(v) ==
            IF v.err # NoErr THEN v
            ELSE CASE operation = "send_message" -> AfterSend(CanSendMessages(v.c, channelID))
                   [] operation = "get_messages" -> CanReadMessageHistory(v.c, channelID)
                   [] operation = "edit_message" ->
                         IF strOf("message_id")
                         THEN CanEditMessage(v.c, channelID, extraData.message_id.s)
                         ELSE [err |-> NewPermissionError("edit_message", "MESSAGE_ID_REQUIRED",
                                           channelID, "Message ID is required for edit operations"),
                               c |-> v.c]
                   [] operation = "delete_message" ->
                         IF strOf("message_id")
                         THEN CanDeleteMessage(v.c, channelID, extraData.message_id.s)
                         ELSE [err |-> NewPermissionError("delete_message", "MESSAGE_ID_REQUIRED",
                                           channelID, "Message ID is required for delete operations"),
                               c |-> v.c]
                   [] operation = "add_reaction" -> AfterReact(CanAddReactions(v.c, channelID))
                   [] OTHER -> v
    IN AfterView([err |-> NoErr, c |-> c])

\* extraData is a map[string]interface{} (possibly nil) of Go values
ValidateMessageOperation(c, operation, channelID, extraData) ==
    LET strOf(key) == Has(extraData, key) /\ extraData[key].k = "string"
        AfterSend(s) ==
            IF s.err # NoErr THEN s
            ELSE IF Has(extraData, "tts") /\ extraData.tts.k = "bool" /\ extraData.tts.b
            THEN CanSendTTSMessages(s.c, channelID)
            ELSE s
        AfterReact(a) ==
            IF a.err # NoErr THEN a
            ELSE IF strOf("emoji") /\ isExternalEmoji(extraData.emoji.s)
            THEN CanUseExternalEmojis(a.c, channelID)
            ELSE a
        AfterView(v) ==
            IF v.err # NoErr THEN v
            ELSE CASE operation = "send_message" -> AfterSend(CanSendMessages(v.c, channelID))
                   [] operation = "get_messages" -> CanReadMessageHistory(v.c, channelID)
                   [] operation = "edit_message" ->
                         IF strOf("message_id")
                         THEN CanEditMessage(v.c, channelID, extraData.message_id.s)
                         ELSE [err |-> NewPermissionError("edit_message", "MESSAGE_ID_REQUIRED",
                                           channelID, "Message ID is required for edit operations"),
                               c |-> v.c]
                   [] operation = "delete_message" ->
                         IF strOf("message_id")
                         THEN CanDeleteMessage(v.c, channelID, extraData.message_id.s)
                         ELSE [err |-> NewPermissionError("delete_message", "MESSAGE_ID_REQUIRED",
                                           channelID, "Message ID is required for delete operations"),
                               c |-> v.c]
                   [] operation = "add_reaction" -> AfterReact(CanAddReactions(v.c, channelID))
                   [] OTHER -> v
    IN AfterView(CanViewChannel(c, channelID))

bit(permissions, b) == BitAnd(permissions, b) # 0

GetChannelPermissions(c, channelID) ==
    LET Flags(p) ==
            IF p.err # NoErr THEN [err |-> p.err, c |-> p.c, perms |-> <<>>]
            ELSE [err |-> NoErr, c |-> p.c,
                  perms |->
                     [view_channel |-> bit(p.permissions, PermissionViewChannel),
                      send_messages |-> bit(p.permissions, PermissionSendMessages),
                      send_tts_messages |-> bit(p.permissions, PermissionSendTTSMessages),
                      manage_messages |-> bit(p.permissions, PermissionManageMessages),
                      read_message_history |-> bit(p.permissions, PermissionReadMessageHistory),
                      add_reactions |-> bit(p.permissions, PermissionAddReactions),
                      use_external_emojis |-> bit(p.permissions, PermissionUseExternalEmojis),
                      attach_files |-> bit(p.permissions, PermissionAttachFiles),
                      embed_links |-> bit(p.permissions, PermissionEmbedLinks),
                      mention_everyone |-> bit(p.permissions, PermissionMentionEveryone)]]
    IN Flags(getUserChannelPermissions(Record(c, <<"check", "channel_permissions">>),
                                       channelID))

(***************************************************************************)
(* Tool results (types.CallToolResult).  errorType is the "error_type" of   *)
(* the content's data ("none" for a success result); detail is what the     *)
(* data says about the failure.                                             *)
(***************************************************************************)
FormatValidationError(err) ==
    [isError |-> TRUE, errorType |-> IF err.kind = "validation" THEN err.type ELSE "validation",
     category |-> "validation", detail |-> err]

FormatPermissionError(err) ==
    [isError |-> TRUE, errorType |-> "permission", category |-> "permission", detail |-> err]

formatError(message, err) ==
    [isError |-> TRUE, errorType |-> "discord_api", category |-> "remote",
     detail |-> [kind |-> "error", msg |-> message, cause |-> err]]

Success(text, data) ==
    [isError |-> FALSE, errorType |-> "none", category |-> "success",
     detail |-> [kind |-> "nil", text |-> text, data |-> data]]

\* What Execute hands back: (CallToolResult, error), or a runtime panic that
\* unwinds through the caller
Return(result, c) == [result |-> result, err |-> NoErr, panic |-> FALSE, c |-> c]
Panics(err, c) == [result |-> Nil, err |-> err, panic |-> TRUE, c |-> c]

\* if permErr, ok := err.(*permissions.PermissionError); ok { ... }
permissionFailure(err, c) ==
    IF err.kind = "perm" THEN Return(FormatPermissionError(err), c)
    ELSE Return(formatError("Permission check failed", err), c)

\* t.handler.validator.ValidateToolParams(name, params.Arguments): the
\* validator's pattern cache lives in the context
Validate(c, toolName, args, order) ==
    LET Validated(v) ==
            [err |-> v.err, c |-> [Record(c, <<"validate", toolName>>) EXCEPT !.pats = v.pats]]
    IN Validated(ValidateToolParams(c.pats, toolName, args, order))

(***************************************************************************)
(* Message handlers (internal/handlers/messages.go).                        *)
(***************************************************************************)
RECURSIVE badField(_, _)
badField(fields, i) ==
    IF i > Len(fields) THEN 0
    ELSE IF fields[i].k # "map" THEN i
    ELSE badField(fields, i + 1)

parseEmbed(embedData) ==
    IF embedData.k # "map" THEN PlainError("embed must be an object")
    ELSE IF Has(embedData.m, "fields") /\ embedData.m.fields.k = "slice"
              /\ badField(embedData.m.fields.items, 1) # 0
    THEN PlainError("field at index " \o ToString(badField(embedData.m.fields.items, 1) - 1)
                      \o " must be an object")
    ELSE NoErr

RECURSIVE parseEmbeds(_, _)
parseEmbeds(embedsSlice, i) ==
    IF i > Len(embedsSlice) THEN NoErr
    ELSE IF parseEmbed(embedsSlice[i]) # NoErr
    THEN [kind |-> "error", msg |-> "invalid embed at index " \o ToString(i - 1),
          cause |-> parseEmbed(embedsSlice[i])]
    ELSE parseEmbeds(embedsSlice, i + 1)

\* The "embeds" block shared by send_message and edit_message
embedsError(args) ==
    IF ~Has(args, "embeds") THEN NoErr
    ELSE IF args.embeds.k # "slice" THEN PlainError("embeds must be an array")
    ELSE parseEmbeds(args.embeds.items, 1)

SendMessageExecute(c, args, order) ==
    LET tts == IF Has(args, "tts") THEN args.tts.b ELSE FALSE
        Called(s) ==
            IF s.failed THEN Return(formatError("Failed to send message", PlainError("remote")), s.c)
            ELSE Return(Success("Message sent successfully", args.channel_id.s), s.c)
        Checked(p) ==
            IF p.err # NoErr THEN permissionFailure(p.err, p.c)
            ELSE Called(SessionCall(p.c, "ChannelMessageSendComplex", args.channel_id.s))
        Validated(v) ==
            IF v.err.kind = "panic" THEN Panics(v.err, v.c)
            ELSE IF v.err # NoErr THEN Return(FormatValidationError(v.err), v.c)
            ELSE IF embedsError(args) # NoErr
            THEN Return(FormatValidationError(embedsError(args)), v.c)
            ELSE Checked(ValidateMessageOperation(v.c, "send_message", args.channel_id.s,
                                                  [tts |-> BoolV(tts)]))
    IN Validated(Validate(c, "send_message", args, order))

GetChannelMessagesExecute(c, args, order) ==
    LET Called(s) ==
            IF s.failed
            THEN Return(formatError("Failed to get channel messages", PlainError("remote")), s.c)
            ELSE Return(Success("Retrieved messages", args.channel_id.s), s.c)
        Checked(p) ==
            IF p.err # NoErr THEN permissionFailure(p.err, p.c)
            ELSE Called(SessionCall(p.c, "ChannelMessages", args.channel_id.s))
        Validated(v) ==
            IF v.err.kind = "panic" THEN Panics(v.err, v.c)
            ELSE IF v.err # NoErr THEN Return(FormatValidationError(v.err), v.c)
            ELSE Checked(ValidateMessageOperation(v.c, "get_messages", args.channel_id.s, <<>>))
    IN Validated(Validate(c, "get_channel_messages", args, order))

EditMessageExecute(c, args, order) ==
    LET Called(s) ==
            IF s.failed THEN Return(formatError("Failed to edit message", PlainError("remote")), s.c)
            ELSE Return(Success("Message edited successfully", args.message_id.s), s.c)
        Checked(p) ==
            IF p.err # NoErr THEN permissionFailure(p.err, p.c)
            ELSE Called(SessionCall(p.c, "ChannelMessageEditComplex", args.message_id.s))
        Validated(v) ==
            IF v.err.kind = "panic" THEN Panics(v.err, v.c)
            ELSE IF v.err # NoErr THEN Return(FormatValidationError(v.err), v.c)
            ELSE IF embedsError(args) # NoErr
            THEN Return(FormatValidationError(embedsError(args)), v.c)
            ELSE Checked(ValidateMessageOperation(v.c, "edit_message", args.channel_id.s,
                                                  [message_id |-> StrV(args.message_id.s)]))
    IN Validated(Validate(c, "edit_message", args, order))

DeleteMessageExecute(c, args, order) ==
    LET Called(s) ==
            IF s.failed
            THEN Return(formatError("Failed to delete message", PlainError("remote")), s.c)
            ELSE Return(Success("Message deleted successfully", args.message_id.s), s.c)
        Fetched(m) ==
            IF m.err # NoErr
            THEN Return(formatError("Failed to get message info before deletion", m.err), m.c)
            ELSE Called(SessionCall(m.c, "ChannelMessageDelete", args.message_id.s))
        Checked(p) ==
            IF p.err # NoErr THEN permissionFailure(p.err, p.c)
            ELSE Fetched(getMessageInfo(p.c, args.channel_id.s, args.message_id.s))
        Validated(v) ==
            IF v.err.kind = "panic" THEN Panics(v.err, v.c)
            ELSE IF v.err # NoErr THEN Return(FormatValidationError(v.err), v.c)
            ELSE Checked(ValidateMessageOperation(v.c, "delete_message", args.channel_id.s,
                                                  [message_id |-> StrV(args.message_id.s)]))
    IN Validated(Validate(c, "delete_message", args, order))

HasPrefix(s, prefix) ==
    Len(s) >= Len(prefix) /\ SubSeq(s, 1, Len(prefix)) = prefix

isCustomEmoji(emoji) ==
    /\ Len(emoji) > 2
    /\ emoji[1] = "<"
    /\ emoji[Len(emoji)] = ">"
    /\ (HasPrefix(emoji, <<"<", ":">>) \/ HasPrefix(emoji, <<"<", "a", ":">>))

formatEmoji(emoji) ==
    IF isCustomEmoji(emoji)
    THEN IF HasPrefix(emoji, <<"<", "a", ":">>) THEN SubSeq(emoji, 4, Len(emoji) - 1)
         ELSE SubSeq(emoji, 3, Len(emoji) - 1)
    ELSE emoji

AddReactionExecute(c, args, order) ==
    LET Called(s) ==
            IF s.failed THEN Return(formatError("Failed to add reaction", PlainError("remote")), s.c)
            ELSE Return(Success("Added reaction", formatEmoji(args.emoji.s)), s.c)
        Checked(p) ==
            IF p.err # NoErr THEN permissionFailure(p.err, p.c)
            ELSE IF formatEmoji(args.emoji.s) = <<>>
            THEN Return(FormatValidationError(PlainError("invalid emoji format")), p.c)
            ELSE Called(SessionCall(p.c, "MessageReactionAdd", args.message_id.s))
        Validated(v) ==
            IF v.err.kind = "panic" THEN Panics(v.err, v.c)
            ELSE IF v.err # NoErr THEN Return(FormatValidationError(v.err), v.c)
            ELSE Checked(ValidateMessageOperation(v.c, "add_reaction", args.channel_id.s,
                                                  [emoji |-> StrV(args.emoji.s)]))
    IN Validated(Validate(c, "add_reaction", args, order))

(***************************************************************************)
(* Role handlers (internal/handlers/roles.go).                              *)
(***************************************************************************)
ListRolesExecute(c, args, order) ==
    LET Called(s) ==
            IF s.failed THEN Return(formatError("Failed to list roles", PlainError("remote")), s.c)
            ELSE Return(Success("Found roles", args.guild_id.s), s.c)
        Checked(p) ==
            IF p.err # NoErr THEN permissionFailure(p.err, p.c)
            ELSE Called(SessionCall(p.c, "GuildRoles", args.guild_id.s))
        Validated(v) ==
            IF v.err.kind = "panic" THEN Panics(v.err, v.c)
            ELSE IF v.err # NoErr THEN Return(FormatValidationError(v.err), v.c)
            ELSE Checked(CanManageRoles(v.c, args.guild_id.s))
    IN Validated(Validate(c, "list_roles", args, order))

GetRoleInfoExecute(c, args, order) ==
    LET Looked(st) ==
            IF args.role_id.s \notin DOMAIN st.world.rolePerms
            THEN Return(formatError("Failed to get role info", PlainError("state cache miss")), st)
            ELSE Return(Success("Role", args.role_id.s), st)
        Checked(p) ==
            IF p.err # NoErr THEN permissionFailure(p.err, p.c)
            ELSE Looked(Record(p.c, <<"state", "Role", args.role_id.s>>))
        Validated(v) ==
            IF v.err.kind = "panic" THEN Panics(v.err, v.c)
            ELSE IF v.err # NoErr THEN Return(FormatValidationError(v.err), v.c)
            ELSE Checked(CanManageRoles(v.c, args.guild_id.s))
    IN Validated(Validate(c, "get_role_info", args, order))

CreateRoleExecute(c, args, order) ==
    LET Called(s) ==
            IF s.failed THEN Return(formatError("Failed to create role", PlainError("remote")), s.c)
            ELSE Return(Success("Created role", args.guild_id.s), s.c)
        Checked(p) ==
            IF p.err # NoErr THEN permissionFailure(p.err, p.c)
            ELSE Called(SessionCall(p.c, "GuildRoleCreate", args.guild_id.s))
        Validated(v) ==
            IF v.err.kind = "panic" THEN Panics(v.err, v.c)
            ELSE IF v.err # NoErr THEN Return(FormatValidationError(v.err), v.c)
            ELSE Checked(CanManageRoles(v.c, args.guild_id.s))
    IN Validated(Validate(c, "create_role", args, order))

\* delete_role consulting the permission checker before the validator
DeleteRolePermissionFirst(c, args, order) ==
    LET Called(s) ==
            IF s.failed THEN Return(formatError("Failed to delete role", PlainError("remote")), s.c)
            ELSE Return(Success("Deleted role", args.role_id.s), s.c)
        Validated(p, v) ==
            IF v.err.kind = "panic" THEN Panics(v.err, v.c)
            ELSE IF v.err # NoErr THEN Return(FormatValidationError(v.err), v.c)
            ELSE IF p.err # NoErr THEN permissionFailure(p.err, v.c)
            ELSE Called(SessionCall(v.c, "GuildRoleDelete", args.role_id.s))
        Checked(p) == Validated(p, Validate(p.c, "delete_role", args, order))
    IN IF Has(args, "guild_id") /\ args.guild_id.k = "string"
       THEN Checked(CanManageRoles(c, args.guild_id.s))
       ELSE Checked([err |-> NoErr, c |-> c])

DeleteRoleExecute(c, args, order) ==
    LET Called(s) ==
            IF s.failed THEN Return(formatError("Failed to delete role", PlainError("remote")), s.c)
            ELSE Return(Success("Deleted role", args.role_id.s), s.c)
        Checked(p) ==
            IF p.err # NoErr THEN permissionFailure(p.err, p.c)
            ELSE Called(SessionCall(p.c, "GuildRoleDelete", args.role_id.s))
        Validated(v) ==
            IF v.err.kind = "panic" THEN Panics(v.err, v.c)
            ELSE IF v.err # NoErr THEN Return(FormatValidationError(v.err), v.c)
            ELSE Checked(CanManageRoles(v.c, args.guild_id.s))
    IN Validated(Validate(c, "delete_role", args, order))

\* assign_role going on to the session whatever CanManageRoles returned
AssignRoleUnchecked(c, args, order) ==
    LET Called(s) ==
            IF s.failed THEN Return(formatError("Failed to assign role", PlainError("remote")), s.c)
            ELSE Return(Success("Assigned role", args.role_id.s), s.c)
        Checked(p) == Called(SessionCall(p.c, "GuildMemberRoleAdd", args.role_id.s))
        Validated(v) ==
            IF v.err.kind = "panic" THEN Panics(v.err, v.c)
            ELSE IF v.err # NoErr THEN Return(FormatValidationError(v.err), v.c)
            ELSE Checked(CanManageRoles(v.c, args.guild_id.s))
    IN Validated(Validate(c, "assign_role", args, order))

AssignRoleExecute(c, args, order) ==
    LET Called(s) ==
            IF s.failed THEN Return(formatError("Failed to assign role", PlainError("remote")), s.c)
            ELSE Return(Success("Assigned role", args.role_id.s), s.c)
        Checked(p) ==
            IF p.err # NoErr THEN permissionFailure(p.err, p.c)
            ELSE Called(SessionCall(p.c, "GuildMemberRoleAdd", args.role_id.s))
        Validated(v) ==
            IF v.err.kind = "panic" THEN Panics(v.err, v.c)
            ELSE IF v.err # NoErr THEN Return(FormatValidationError(v.err), v.c)
            ELSE Checked(CanManageRoles(v.c, args.guild_id.s))
    IN Validated(Validate(c, "assign_role", args, order))

UnassignRoleExecute(c, args, order) ==
    LET Called(s) ==
            IF s.failed THEN Return(formatError("Failed to unassign role", PlainError("remote")), s.c)
            ELSE Return(Success("Unassigned role", args.role_id.s), s.c)
        Checked(p) ==
            IF p.err # NoErr THEN permissionFailure(p.err, p.c)
            ELSE Called(SessionCall(p.c, "GuildMemberRoleRemove", args.role_id.s))
        Validated(v) ==
            IF v.err.kind = "panic" THEN Panics(v.err, v.c)
            ELSE IF v.err # NoErr THEN Return(FormatValidationError(v.err), v.c)
            ELSE Checked(CanManageRoles(v.c, args.guild_id.s))
    IN Validated(Validate(c, "unassign_role", args, order))

(***************************************************************************)
(* Guild handlers (internal/handlers/guilds.go).                            *)
(***************************************************************************)
GetGuildInfoExecute(c, args, order) ==
    LET Called(g) ==
            IF g.err # NoErr THEN Return(formatError("Failed to get guild info", g.err), g.c)
            ELSE Return(Success("Guild", args.guild_id.s), g.c)
        Checked(p) ==
            IF p.err # NoErr THEN permissionFailure(p.err, p.c)
            ELSE Called(GetGuild(p.c, args.guild_id.s))
        Validated(v) ==
            IF v.err.kind = "panic" THEN Panics(v.err, v.c)
            ELSE IF v.err # NoErr THEN Return(FormatValidationError(v.err), v.c)
            ELSE Checked(CanViewGuild(v.c, args.guild_id.s))
    IN Validated(Validate(c, "get_guild_info", args, order))

ListGuildMembersExecute(c, args, order) ==
    LET Called(s) ==
            IF s.failed THEN Return(formatError("Failed to list guild members", PlainError("remote")), s.c)
            ELSE Return(Success("Found members", args.guild_id.s), s.c)
        Checked(p) ==
            IF p.err # NoErr THEN permissionFailure(p.err, p.c)
            ELSE Called(SessionCall(p.c, "GuildMembers", args.guild_id.s))
        Validated(v) ==
            IF v.err.kind = "panic" THEN Panics(v.err, v.c)
            ELSE IF v.err # NoErr THEN Return(FormatValidationError(v.err), v.c)
            ELSE Checked(CanViewGuild(v.c, args.guild_id.s))
    IN Validated(Validate(c, "list_guild_members", args, order))

(***************************************************************************)
(* Channel handlers (internal/handlers/channels.go).                        *)
(***************************************************************************)
RemoteChannelTypes ==
    (Chan1 :> <<"t", "e", "x", "t">>) @@ (Chan2 :> <<"u", "n", "k", "n", "o", "w", "n">>)
        @@ (Chan3 :> <<"v", "o", "i", "c", "e">>)

\* GuildChannels lists the channels of the guild in the remote order
GuildChannelList(guildID) ==
    SelectSeq(<<Chan1, Chan2, Chan3>>, LAMBDA ch : RemoteChannels[ch] = guildID)

channelTypeToString(channelID) == RemoteChannelTypes[channelID]

Upper == [ch \in {"t", "e", "x", "v", "o", "i", "c"} |->
             CASE ch = "t" -> "T" [] ch = "e" -> "E" [] ch = "x" -> "X" [] ch = "v" -> "V"
               [] ch = "o" -> "O" [] ch = "i" -> "I" [] ch = "c" -> "C"]

\* strings.EqualFold over the letters the channel types use
EqualFold(s, r) ==
    /\ Len(s) = Len(r)
    /\ \A i \in 1..Len(s) :
          \/ s[i] = r[i]
          \/ s[i] \in DOMAIN Upper /\ Upper[s[i]] = r[i]
          \/ r[i] \in DOMAIN Upper /\ Upper[r[i]] = s[i]

filterChannels(channels, filterType) ==
    IF filterType = <<>> THEN channels
    ELSE SelectSeq(channels, LAMBDA ch : EqualFold(channelTypeToString(ch), filterType))

\* formatChannel: with includePerms the permission map of the channel is
\* resolved; a failure is logged and reported as "error" in the data
formatChannel(c, channelID, includePerms) ==
    LET WithPerms(g) ==
            [c |-> g.c,
             data |-> [id |-> channelID,
                       permissions |-> IF g.err # NoErr THEN "error" ELSE g.perms]]
    IN IF includePerms THEN WithPerms(GetChannelPermissions(c, channelID))
       ELSE [c |-> c, data |-> [id |-> channelID]]

RECURSIVE formatChannels(_, _, _, _, _)
formatChannels(c, channels, includePerms, i, acc) ==
    LET Next1(f) == formatChannels(f.c, channels, includePerms, i + 1, Append(acc, f.data))
    IN IF i > Len(channels) THEN [c |-> c, data |-> acc]
       ELSE Next1(formatChannel(c, channels[i], includePerms))

ListChannelsExecute(c, args, order) ==
    LET filterType == IF Has(args, "type") THEN args.type.s ELSE <<>>
        includePerms == IF Has(args, "include_permissions")
                        THEN args.include_permissions.b ELSE FALSE
        Formatted(f) == Return(Success("Found channels", f.data), f.c)
        Called(g) ==
            IF g.err # NoErr THEN Return(formatError("Failed to list channels", g.err), g.c)
            ELSE Formatted(formatChannels(g.c,
                               filterChannels(GuildChannelList(args.guild_id.s), filterType),
                               includePerms, 1, <<>>))
        Checked(p) ==
            IF p.err # NoErr THEN permissionFailure(p.err, p.c)
            ELSE Called(GetChannels(p.c, args.guild_id.s))
        Validated(v) ==
            IF v.err.kind = "panic" THEN Panics(v.err, v.c)
            ELSE IF v.err # NoErr THEN Return(FormatValidationError(v.err), v.c)
            ELSE Checked(CanViewGuild(v.c, args.guild_id.s))
    IN Validated(Validate(c, "list_channels", args, order))

GetChannelInfoExecute(c, args, order) ==
    LET includePerms == IF Has(args, "include_permissions")
                        THEN args.include_permissions.b ELSE FALSE
        Formatted(f) == Return(Success("Channel", f.data), f.c)
        Called(ch) ==
            IF ch.err # NoErr THEN Return(formatError("Failed to get channel info", ch.err), ch.c)
            ELSE Formatted(formatChannel(ch.c, args.channel_id.s, includePerms))
        Checked(p) ==
            IF p.err # NoErr THEN permissionFailure(p.err, p.c)
            ELSE Called(getChannelInfo(p.c, args.channel_id.s))
        Validated(v) ==
            IF v.err.kind = "panic" THEN Panics(v.err, v.c)
            ELSE IF v.err # NoErr THEN Return(FormatValidationError(v.err), v.c)
            ELSE Checked(CanViewChannel(v.c, args.channel_id.s))
    IN Validated(Validate(c, "get_channel_info", args, order))

(***************************************************************************)
(* PingTool (internal/handlers/ping.go): it has no schema, no validation    *)
(* and no permission check.                                                 *)
(***************************************************************************)
PingExecute(c, args, order) ==
    LET Failed(err, c1) ==
            Return([isError |-> TRUE, errorType |-> "none", category |-> "remote",
                    detail |-> err], c1)
        WithBotUser(b) ==
            IF b.err # NoErr THEN Failed(b.err, b.c)
            ELSE Return(Success("Discord MCP Server is healthy", IsConnected(b.c)), b.c)
        Pinged(p) ==
            IF p.err # NoErr THEN Failed(p.err, p.c) ELSE WithBotUser(GetBotUser(p.c))
    IN Pinged(ClientPing(c))

(***************************************************************************)
(* ToolHandler implementations.  A handler value is the tool's name and     *)
(* the instance registered (two instances of one tool type share the name   *)
(* their GetDefinition reports).                                            *)
(***************************************************************************)
Handler(name, inst) == [name |-> name, inst |-> inst]

HandlerList ==
    <<Handler("send_message", 1), Handler("list_channels", 1), Handler("send_message", 2),
      Handler("ping", 1), Handler("get_channel_messages", 1), Handler("edit_message", 1),
      Handler("delete_message", 1), Handler("add_reaction", 1), Handler("get_channel_info", 1),
      Handler("get_guild_info", 1), Handler("list_guild_members", 1), Handler("list_roles", 1),
      Handler("get_role_info", 1), Handler("create_role", 1), Handler("delete_role", 1),
      Handler("assign_role", 1), Handler("unassign_role", 1)>>

\* validation.GetToolDefinition / PingTool.GetDefinition: the schema of the
\* definition is ToolSchemas[name], or the basic empty schema
GetDefinition(handler) ==
    [name |-> handler.name,
     inputSchema |-> IF HasToolSchema(handler.name) THEN handler.name ELSE "basic"]

\* handler.Execute(params), dispatched on the handler's dynamic type
Execute(handler, c, args, order) ==
    CASE handler.name = "send_message" -> SendMessageExecute(c, args, order)
      [] handler.name = "get_channel_messages" -> GetChannelMessagesExecute(c, args, order)
      [] handler.name = "edit_message" -> EditMessageExecute(c, args, order)
      [] handler.name = "delete_message" -> DeleteMessageExecute(c, args, order)
      [] handler.name = "add_reaction" -> AddReactionExecute(c, args, order)
      [] handler.name = "list_channels" -> ListChannelsExecute(c, args, order)
      [] handler.name = "get_channel_info" -> GetChannelInfoExecute(c, args, order)
      [] handler.name = "get_guild_info" -> GetGuildInfoExecute(c, args, order)
      [] handler.name = "list_guild_members" -> ListGuildMembersExecute(c, args, order)
      [] handler.name = "list_roles" -> ListRolesExecute(c, args, order)
      [] handler.name = "get_role_info" -> GetRoleInfoExecute(c, args, order)
      [] handler.name = "create_role" -> CreateRoleExecute(c, args, order)
      [] handler.name = "delete_role" -> DeleteRoleExecute(c, args, order)
      [] handler.name = "assign_role" -> AssignRoleExecute(c, args, order)
      [] handler.name = "unassign_role" -> UnassignRoleExecute(c, args, order)
      [] handler.name = "ping" -> PingExecute(c, args, order)

(***************************************************************************)
(* JSON-RPC envelopes (pkg/types/mcp.go).  A request line that parses is    *)
(*   [kind |-> "req", id, method, params]                                   *)
(* with id Nil when the line has no "id", and params one of                 *)
(*   [k |-> "absent"]      no "params" member (req.Params == nil)           *)
(*   [k |-> "mistyped"]    JSON that does not decode into the params struct *)
(*   [k |-> "call", name, arguments]   a CallToolParams object              *)
(*   [k |-> "object"]      some other JSON object                           *)
(***************************************************************************)
ParseError == -32700
InvalidRequest == -32600
MethodNotFound == -32601
InvalidParams == -32602
InternalError == -32603

ErrorResponse(id, code, message) ==
    [id |-> id, kind |-> "error", code |-> code, message |-> message]

ResultResponse(id, result) == [id |-> id, kind |-> "result", result |-> result]

NoResponse == [kind |-> "none"]

\* What processMessage hands back besides the response: the session flag,
\* the handler execution (if one ran) and the client/validator state
NotExecuted == [ran |-> FALSE]

Outcome(resp, initialized, exec, c) ==
    [resp |-> resp, initialized |-> initialized, exec |-> exec, c |-> c, panic |-> FALSE]

handleInitialize(req, initialized, c) ==
    IF req.params.k = "mistyped"
    THEN Outcome(ErrorResponse(req.id, InvalidParams, "Invalid parameters"),
                 initialized, NotExecuted, c)
    ELSE Outcome(ResultResponse(req.id, [protocolVersion |-> "2024-11-05"]),
                 initialized, NotExecuted, c)

\* handleInitialized flipping the flag
handleInitializedToggles(req, initialized, c) ==
    Outcome(NoResponse, ~initialized, NotExecuted, c)

handleInitialized(req, initialized, c) == Outcome(NoResponse, TRUE, NotExecuted, c)

\* handleToolsList appending every definition twice
handleToolsListTwice(req, initialized, tools, listOrder, c) ==
    IF ~initialized
    THEN Outcome(ErrorResponse(req.id, InvalidRequest, "Server not initialized"),
                 initialized, NotExecuted, c)
    ELSE Outcome(ResultResponse(req.id,
                     [tools |-> [i \in 1..(2 * Len(listOrder)) |->
                                    GetDefinition(tools[listOrder[(i + 1) \div 2]])]]),
                 initialized, NotExecuted, c)

\* listOrder is the order in which the range over s.tools visits the map
handleToolsList(req, initialized, tools, listOrder, c) ==
    IF ~initialized
    THEN Outcome(ErrorResponse(req.id, InvalidRequest, "Server not initialized"),
                 initialized, NotExecuted, c)
    ELSE Outcome(ResultResponse(req.id,
                     [tools |-> [i \in 1..Len(listOrder) |-> GetDefinition(tools[listOrder[i]])]]),
                 initialized, NotExecuted, c)

\* json.Unmarshal(req.Params, &params): absent params are empty input, which
\* does not parse; an object without "name" decodes to the zero name
CallToolParamsOf(params) ==
    CASE params.k = "call" -> [ok |-> TRUE, name |-> params.name, arguments |-> params.arguments]
      [] params.k = "object" -> [ok |-> TRUE, name |-> "", arguments |-> NoArgs]
      [] OTHER -> [ok |-> FALSE, name |-> "", arguments |-> NoArgs]

\* The unknown tool reported as a fault of the params
toolNotFoundAsInvalidParams(req, initialized, name, c) ==
    Outcome(ErrorResponse(req.id, InvalidParams, "Invalid parameters"),
            initialized, NotExecuted, c)

\* handleToolCall: s.tools has no handler under params.Name
toolNotFound(req, initialized, name, c) ==
    Outcome(ErrorResponse(req.id, MethodNotFound, "Tool not found: " \o name),
            initialized, NotExecuted, c)

\* handleToolCall without the check of s.initialized
handleToolCallUnguarded(req, initialized, tools, c, order) ==
    LET params == CallToolParamsOf(req.params)
        Executed(e) ==
            LET exec == [ran |-> TRUE, handler |-> tools[params.name],
                         args |-> params.arguments, calls |-> e.c.calls,
                         result |-> e.result, err |-> e.err, panic |-> e.panic]
            IN IF e.panic
               THEN [resp |-> NoResponse, initialized |-> initialized, exec |-> exec,
                     c |-> e.c, panic |-> TRUE]
               ELSE IF e.err # NoErr
               THEN Outcome(ErrorResponse(req.id, InternalError, "Tool execution failed"),
                            initialized, exec, e.c)
               ELSE Outcome(ResultResponse(req.id, e.result), initialized, exec, e.c)
    IN IF ~params.ok
       THEN Outcome(ErrorResponse(req.id, InvalidParams, "Invalid parameters"),
                    initialized, NotExecuted, c)
       ELSE IF params.name \notin DOMAIN tools
       THEN toolNotFound(req, initialized, params.name, c)
       ELSE Executed(Execute(tools[params.name], c, params.arguments, order))

handleToolCall(req, initialized, tools, c, order) ==
    LET params == CallToolParamsOf(req.params)
        Executed(e) ==
            LET exec == [ran |-> TRUE, handler |-> tools[params.name],
                         args |-> params.arguments, calls |-> e.c.calls,
                         result |-> e.result, err |-> e.err, panic |-> e.panic]
            IN IF e.panic
               THEN [resp |-> NoResponse, initialized |-> initialized, exec |-> exec,
                     c |-> e.c, panic |-> TRUE]
               ELSE IF e.err # NoErr
               THEN Outcome(ErrorResponse(req.id, InternalError, "Tool execution failed"),
                            initialized, exec, e.c)
               ELSE Outcome(ResultResponse(req.id, e.result), initialized, exec, e.c)
    IN IF ~initialized
       THEN Outcome(ErrorResponse(req.id, InvalidRequest, "Server not initialized"),
                    initialized, NotExecuted, c)
       ELSE IF ~params.ok
       THEN Outcome(ErrorResponse(req.id, InvalidParams, "Invalid parameters"),
                    initialized, NotExecuted, c)
       ELSE IF params.name \notin DOMAIN tools
       THEN toolNotFound(req, initialized, params.name, c)
       ELSE Executed(Execute(tools[params.name], c, params.arguments, order))

handlePing(req, initialized, c) ==
    Outcome(ResultResponse(req.id, [status |-> "pong"]), initialized, NotExecuted, c)

\* The default branch answering without the request's id
unknownMethodNoId(req, initialized, c) ==
    Outcome(ErrorResponse(Nil, MethodNotFound, "Method not found"),
            initialized, NotExecuted, c)

\* The default branch of processMessage's switch on req.Method
unknownMethod(req, initialized, c) ==
    Outcome(ErrorResponse(req.id, MethodNotFound, "Method not found"),
            initialized, NotExecuted, c)

\* The parse failure answered as a session reset
parseFailureResets(initialized, c) ==
    Outcome(ErrorResponse(Nil, ParseError, "Parse error"), FALSE, NotExecuted, c)

\* json.Unmarshal of the line into a Request fails: the response has no ID
\* (the field is omitted when empty)
parseFailure(initialized, c) ==
    Outcome(ErrorResponse(Nil, ParseError, "Parse error"), initialized, NotExecuted, c)

processMessage(message, initialized, tools, listOrder, c, order) ==
    IF message.kind # "req"
    THEN parseFailure(initialized, c)
    ELSE CASE message.method = "initialize" -> handleInitialize(message, initialized, c)
           [] message.method = "initialized" -> handleInitialized(message, initialized, c)
           [] message.method = "tools/list" ->
                  handleToolsList(message, initialized, tools, listOrder, c)
           [] message.method = "tools/call" ->
                  handleToolCall(message, initialized, tools, c, order)
           [] message.method = "ping" -> handlePing(message, initialized, c)
           [] OTHER -> unknownMethod(message, initialized, c)

(***************************************************************************)
(* The state of the running program.                                        *)
(***************************************************************************)
VARIABLES
    tools,          \* Server.tools: tool name -> handler
    initialized,    \* Server.initialized
    connected,      \* Client.connected
    pc,             \* the main goroutine: "startup", "scan", "write", "writing",
                    \* "returned" (Start returned), "failed" (the loop returned a read
                    \* or write error) or "crashed" (a panic unwound it)
    nregs,          \* RegisterTool calls made
    nread,          \* lines the scanner has delivered
    last,           \* the line processed last, its response and handler execution
    out,            \* the chunks written to the output sink, in order
    evs,            \* the event callback goroutines
    svcMutex,       \* notifications.Service.mutex: 0 or the goroutine holding it
    events,         \* config.EventsConfig: [enabled, allowed]
    requests,       \* rateLimiter.requests
    now,            \* the clock, in windows of the limiter
    pats,           \* Validator.patterns
    allowedGuilds,  \* DiscordConfig.AllowedGuilds
    probe,          \* the application under study in the function-level specifications
    answered        \* the responses the loop has written in full, in the order of the
                    \* writes, each with the number of the input line it answers

vars == <<tools, initialized, connected, pc, nregs, nread, last, out, evs, svcMutex, events,
          requests, now, pats, allowedGuilds, probe, answered>>

RateLimitPerMinute == 3

EventNames ==
    {"discord/messageCreated", "discord/guildMemberAdded", "discord/messageReactionAdded"}

\* allow-lists the configuration file may hold
AllowLists == {<<"discord/messageCreated">>,
               <<"discord/guildMemberAdded", "discord/messageReactionAdded">>}

NoLine == [kind |-> "none"]
NoLast == [line |-> NoLine, resp |-> NoResponse, exec |-> NotExecuted, seq |-> 0]
NoProbe == [op |-> "none"]

\* Worlds the session specification draws from when a handler runs
World(mask, roles, rolePerms, memberCached) ==
    [mask |-> mask, roles |-> roles, rolePerms |-> rolePerms, memberCached |-> memberCached]

Role9 == <<"9">>

SessionWorlds ==
    {World(0, <<>>, <<>>, TRUE),
     World(BitOr(PermissionViewChannel, PermissionSendMessages), <<Role9>>,
           (Role9 :> PermissionManageRoles), TRUE)}

\* Which session calls of an execution the remote service fails
SessionFails == {{}, {2}}

Context(w, f) ==
    [connected |-> connected, now |-> now, maxReqs |-> RateLimitPerMinute, reqs |-> requests,
     allowedGuilds |-> allowedGuilds, calls |-> <<>>, nsess |-> 0, fails |-> f,
     pats |-> pats, world |-> w]

(***************************************************************************)
(* Input lines of the session specification.                                *)
(***************************************************************************)
Req(id, method, params) == [kind |-> "req", id |-> id, method |-> method, params |-> params]
Absent == [k |-> "absent"]
Call(name, arguments) == [k |-> "call", name |-> name, arguments |-> arguments]

Id1 == FloatV(2)
Id2 == FloatV(4)

ToolCallLines ==
    {Req(Id2, "tools/call", Absent),
     Req(Id1, "tools/call", [k |-> "mistyped"]),
     Req(Id1, "tools/call", [k |-> "object"]),
     Req(Id2, "tools/call", Call("no_such_tool", NoArgs)),
     Req(Id1, "tools/call", Call("send_message",
            [channel_id |-> StrV(Chan1), content |-> StrV(<<"h">>)])),
     Req(Id2, "tools/call", Call("send_message", [channel_id |-> StrV(Chan1)])),
     Req(Id1, "tools/call", Call("list_channels",
            [guild_id |-> StrV(Guild7), type_filter |-> SliceV(<<SliceV(<<>>)>>)])),
     Req(Id2, "tools/call", Call("list_channels", [guild_id |-> StrV(Guild7)])),
     Req(Id1, "tools/call", Call("ping", NoArgs))}

InputLines ==
    {[kind |-> "empty"], [kind |-> "garbage"],
     Req(Id1, "initialize", Absent), Req(Id2, "initialize", [k |-> "mistyped"]),
     Req(Nil, "initialized", Absent), Req(Id1, "initialized", Absent),
     Req(Id1, "tools/list", Absent), Req(Id2, "ping", Absent),
     Req(Id1, "resources/list", Absent), Req(Id2, "shutdown", Absent),
     Req(Nil, "notifications/cancelled", Absent)} \cup ToolCallLines

IsToolCall(line) == line.kind = "req" /\ line.method = "tools/call"

Init ==
    /\ tools = <<>>
    /\ initialized = FALSE
    /\ connected = FALSE
    /\ pc = "startup"
    /\ nregs = 0
    /\ nread = 0
    /\ last = NoLast
    /\ out = <<>>
    /\ evs = [t \in 1..MaxEvents |-> [pc |-> "idle", name |-> "none"]]
    /\ svcMutex = 0
    /\ events \in [enabled : BOOLEAN, allowed : AllowLists]
    /\ requests = <<>>
    /\ now = 0
    /\ pats = <<>>
    /\ allowedGuilds = <<>>
    /\ probe = NoProbe
    /\ answered = <<>>

(***************************************************************************)
(* Startup (cmd/discord-mcp): the tools are registered, then Start connects *)
(* and serves.                                                              *)
(***************************************************************************)
RegisterToolResult(registry, handler) ==
    (GetDefinition(handler).name :> handler) @@ registry

RegisterTool(handler) ==
    /\ pc = "startup"
    /\ nregs < MaxRegs
    /\ tools' = RegisterToolResult(tools, handler)
    /\ nregs' = nregs + 1
    /\ UNCHANGED <<initialized, connected, pc, nread, last, out, evs, svcMutex, events, requests,
                   now, pats, allowedGuilds, probe, answered>>

\* Start: Connect succeeds and handleCommunication begins to scan
Start ==
    /\ pc = "startup"
    /\ connected' = TRUE
    /\ pc' = "scan"
    /\ UNCHANGED <<tools, initialized, nregs, nread, last, out, evs, svcMutex, events, requests, now,
                   pats, allowedGuilds, probe, answered>>

\* Start: session.Open fails, Start returns the error
StartFails ==
    /\ pc = "startup"
    /\ pc' = "returned"
    /\ UNCHANGED <<tools, initialized, connected, nregs, nread, last, out, evs, svcMutex, events,
                   requests, now, pats, allowedGuilds, probe, answered>>

\* Server.Stop, called when the process is told to terminate: Disconnect
Stop ==
    /\ pc \in {"scan", "write", "writing"}
    /\ connected
    /\ connected' = FALSE
    /\ UNCHANGED <<tools, initialized, pc, nregs, nread, last, out, evs, svcMutex, events,
                   requests, now, pats, allowedGuilds, probe, answered>>

(***************************************************************************)
(* handleCommunication: one iteration of the scanner loop reads a line and  *)
(* processes it; a response is then written with fmt.Fprintln, under no     *)
(* lock.  A write of the sink is one chunk, or two when the sink takes the  *)
(* line in parts.                                                           *)
(***************************************************************************)
\* The writers of the sink: the transport loop, and the callback goroutines
\* numbered from 1
LoopWriter == 0

Chunk(w, part) == [w |-> w, part |-> part]

\* The loop body going back to the scanner with the response not written
ScanLineNoWrite(line, w, f, listOrder, order) ==
    LET Processed(r) ==
            /\ initialized' = r.initialized
            /\ requests' = r.c.reqs
            /\ pats' = r.c.pats
            /\ last' = [line |-> line, resp |-> r.resp, exec |-> r.exec, seq |-> nread + 1]
            /\ pc' = IF r.panic THEN "crashed" ELSE "scan"
    IN Processed(processMessage(line, initialized, tools, listOrder, Context(w, f), order))

ScanLine(line, w, f, listOrder, order) ==
    LET Processed(r) ==
            /\ initialized' = r.initialized
            /\ requests' = r.c.reqs
            /\ pats' = r.c.pats
            /\ last' = [line |-> line, resp |-> r.resp, exec |-> r.exec, seq |-> nread + 1]
            /\ pc' = IF r.panic THEN "crashed"
                     ELSE IF r.resp = NoResponse THEN "scan" ELSE "write"
    IN Processed(processMessage(line, initialized, tools, listOrder, Context(w, f), order))

Scan ==
    /\ pc = "scan"
    /\ nread < MaxLines
    /\ nread' = nread + 1
    /\ \E line \in InputLines :
          IF line.kind = "empty"
          THEN UNCHANGED <<initialized, requests, pats, last, pc>>
          ELSE \E w \in IF IsToolCall(line) THEN SessionWorlds ELSE {World(0, <<>>, <<>>, TRUE)},
                  f \in IF IsToolCall(line) THEN SessionFails ELSE {{}},
                  listOrder \in IF line.kind = "req" /\ line.method = "tools/list"
                                THEN RangeOrders(tools) ELSE {<<>>},
                  order \in IF IsToolCall(line) /\ line.params.k = "call"
                            THEN RangeOrders(line.params.arguments) ELSE {<<>>} :
                  ScanLine(line, w, f, listOrder, order)
    /\ UNCHANGED <<tools, connected, nregs, out, evs, svcMutex, events, now, allowedGuilds,
                   probe, answered>>

\* scanner.Scan reports the end of the input: handleCommunication returns
EndOfInput ==
    /\ pc = "scan"
    /\ pc' = "returned"
    /\ UNCHANGED <<tools, initialized, connected, nregs, nread, last, out, evs, svcMutex,
                   events, requests, now, pats, allowedGuilds, probe, answered>>

\* scanner.Scan returns false with scanner.Err() set (a read error, or a
\* line longer than the scanner's buffer): handleCommunication returns it
ReadFails ==
    /\ pc = "scan"
    /\ pc' = "failed"
    /\ UNCHANGED <<tools, initialized, connected, nregs, nread, last, out, evs, svcMutex,
                   events, requests, now, pats, allowedGuilds, probe, answered>>

WriteResponse ==
    /\ pc = "write"
    /\ out' = Append(out, Chunk(LoopWriter, "line"))
    /\ answered' = Append(answered, [seq |-> last.seq, resp |-> last.resp])
    /\ pc' = "scan"
    /\ UNCHANGED <<tools, initialized, connected, nregs, nread, last, evs, svcMutex, events,
                   requests, now, pats, allowedGuilds, probe>>

\* fmt.Fprintln reports an error, before or after part of the line went out:
\* handleCommunication returns it
WriteFails ==
    /\ pc \in {"write", "writing"}
    /\ pc' = "failed"
    /\ UNCHANGED <<tools, initialized, connected, nregs, nread, last, out, evs, svcMutex,
                   events, requests, now, pats, allowedGuilds, probe, answered>>

WriteResponseHead ==
    /\ pc = "write"
    /\ out' = Append(out, Chunk(LoopWriter, "head"))
    /\ pc' = "writing"
    /\ UNCHANGED <<tools, initialized, connected, nregs, nread, last, evs, svcMutex, events,
                   requests, now, pats, allowedGuilds, probe, answered>>

WriteResponseTail ==
    /\ pc = "writing"
    /\ out' = Append(out, Chunk(LoopWriter, "tail"))
    /\ answered' = Append(answered, [seq |-> last.seq, resp |-> last.resp])
    /\ pc' = "scan"
    /\ UNCHANGED <<tools, initialized, connected, nregs, nread, last, evs, svcMutex, events,
                   requests, now, pats, allowedGuilds, probe>>

(***************************************************************************)
(* The event callbacks (internal/discord/dispatcher.go), each run by the    *)
(* session in a goroutine of its own, and notifications.Service.Send.       *)
(***************************************************************************)
Serving == pc \in {"scan", "write", "writing"}

\* isEventAllowed content with any non-empty allow-list
isEventAllowedAny(config, event) == Len(config.allowed) > 0

isEventAllowed(config, event) ==
    \E i \in 1..Len(config.allowed) : config.allowed[i] = event

\* The guard every callback begins with; past it the callback calls Send
HandleEvent(t, name) ==
    /\ Serving
    /\ evs[t].pc = "idle"
    /\ evs' = [evs EXCEPT ![t] =
                  IF ~events.enabled \/ ~isEventAllowed(events, name)
                  THEN [pc |-> "returned", name |-> name]
                  ELSE [pc |-> "send", name |-> name]]
    /\ UNCHANGED <<tools, initialized, connected, pc, nregs, nread, last, out, svcMutex, events,
                   requests, now, pats, allowedGuilds, probe, answered>>

HandleMessageCreate(t) == HandleEvent(t, "discord/messageCreated")

HandleGuildMemberAdd(t) == HandleEvent(t, "discord/guildMemberAdded")

HandleMessageReactionAdd(t) == HandleEvent(t, "discord/messageReactionAdded")

\* s.writer != nil.  The session specification constructs the service with
\* the output stream; the notification specification also with no writer.
WriterConfigured == probe.op = "service" => probe.writer

\* Send taking no notice of the mutex
SendLockNoWait(t) ==
    /\ Serving
    /\ evs[t].pc = "send"
    /\ svcMutex' = t
    /\ evs' = [evs EXCEPT ![t].pc = "write"]
    /\ UNCHANGED <<tools, initialized, connected, pc, nregs, nread, last, out, events, requests,
                   now, pats, allowedGuilds, probe, answered>>

\* Send: s.mutex.Lock(), then the notification is marshalled
SendLock(t) ==
    /\ Serving
    /\ evs[t].pc = "send"
    /\ svcMutex = 0
    /\ svcMutex' = t
    /\ evs' = [evs EXCEPT ![t].pc = "write"]
    /\ UNCHANGED <<tools, initialized, connected, pc, nregs, nread, last, out, events, requests,
                   now, pats, allowedGuilds, probe, answered>>

\* Send: fmt.Fprintln(s.writer, ...) and the deferred Unlock
SendWrite(t) ==
    /\ Serving
    /\ evs[t].pc = "write"
    /\ WriterConfigured
    /\ out' = Append(out, Chunk(t, "line"))
    /\ evs' = [evs EXCEPT ![t].pc = "sent"]
    /\ svcMutex' = 0
    /\ UNCHANGED <<tools, initialized, connected, pc, nregs, nread, last, events, requests, now,
                   pats, allowedGuilds, probe, answered>>

SendWriteHead(t) ==
    /\ Serving
    /\ evs[t].pc = "write"
    /\ WriterConfigured
    /\ out' = Append(out, Chunk(t, "head"))
    /\ evs' = [evs EXCEPT ![t].pc = "writing"]
    /\ UNCHANGED <<tools, initialized, connected, pc, nregs, nread, last, svcMutex, events,
                   requests, now, pats, allowedGuilds, probe, answered>>

SendWriteTail(t) ==
    /\ Serving
    /\ evs[t].pc = "writing"
    /\ out' = Append(out, Chunk(t, "tail"))
    /\ evs' = [evs EXCEPT ![t].pc = "sent"]
    /\ svcMutex' = 0
    /\ UNCHANGED <<tools, initialized, connected, pc, nregs, nread, last, events, requests, now,
                   pats, allowedGuilds, probe, answered>>

\* Send's write failing and the callback asking Send again
SendWriteFailsRetried(t) ==
    /\ Serving
    /\ evs[t].pc \in {"write", "writing"}
    /\ evs' = [evs EXCEPT ![t].pc = "send"]
    /\ svcMutex' = 0
    /\ UNCHANGED <<tools, initialized, connected, pc, nregs, nread, last, out, events, requests,
                   now, pats, allowedGuilds, probe, answered>>

\* Send: fmt.Fprintln reports an error, before or after part of the line went
\* out; Send unlocks and returns it, the callback logs it and returns.  The
\* callback's record keeps how many lines the loop had read by then.
SendWriteFails(t) ==
    /\ Serving
    /\ evs[t].pc \in {"write", "writing"}
    /\ WriterConfigured
    /\ evs' = [evs EXCEPT ![t] = [pc |-> "logged", name |-> evs[t].name, at |-> nread]]
    /\ svcMutex' = 0
    /\ UNCHANGED <<tools, initialized, connected, pc, nregs, nread, last, out, events, requests,
                   now, pats, allowedGuilds, probe, answered>>

\* Send: s.writer is nil; Send unlocks and returns the error, the callback
\* logs it and returns
SendNoWriter(t) ==
    /\ Serving
    /\ evs[t].pc = "write"
    /\ ~WriterConfigured
    /\ evs' = [evs EXCEPT ![t] = [pc |-> "logged", name |-> evs[t].name, at |-> nread,
                                  why |-> "writer"]]
    /\ svcMutex' = 0
    /\ UNCHANGED <<tools, initialized, connected, pc, nregs, nread, last, out, events, requests,
                   now, pats, allowedGuilds, probe, answered>>

\* Send: json.Marshal reports an error; Send unlocks and returns it, the
\* callback logs it and returns
SendMarshalFails(t) ==
    /\ Serving
    /\ evs[t].pc = "write"
    /\ WriterConfigured
    /\ evs' = [evs EXCEPT ![t] = [pc |-> "logged", name |-> evs[t].name, at |-> nread,
                                  why |-> "marshal"]]
    /\ svcMutex' = 0
    /\ UNCHANGED <<tools, initialized, connected, pc, nregs, nread, last, out, events, requests,
                   now, pats, allowedGuilds, probe, answered>>

Next ==
    \/ \E i \in 1..NumHandlers : RegisterTool(HandlerList[i])
    \/ Start
    \/ StartFails
    \/ Stop
    \/ Scan
    \/ EndOfInput
    \/ ReadFails
    \/ WriteFails
    \/ WriteResponse
    \/ WriteResponseHead
    \/ WriteResponseTail
    \/ \E t \in 1..MaxEvents :
          \/ HandleMessageCreate(t)
          \/ HandleGuildMemberAdd(t)
          \/ HandleMessageReactionAdd(t)
          \/ SendLock(t)
          \/ SendWrite(t)
          \/ SendWriteHead(t)
          \/ SendWriteTail(t)
          \/ SendWriteFails(t)
          \/ SendMarshalFails(t)

Spec == Init /\ [][Next]_vars

(***************************************************************************)
(* Function-level specification: one application of a handler, of the       *)
(* validator or of a checker method, in a program state and on an input     *)
(* drawn from bounded sets.  probe holds the input, then the input and the  *)
(* outcome.                                                                 *)
(***************************************************************************)
Without(m, key) == [k \in DOMAIN m \ {key} |-> m[k]]

With(m, key, value) == (key :> value) @@ m

ValidArgs ==
    [send_message |-> [channel_id |-> StrV(Chan1), content |-> StrV(<<"h">>)],
     get_channel_messages |-> [channel_id |-> StrV(Chan1)],
     edit_message |-> [channel_id |-> StrV(Chan1), message_id |-> StrV(Msg5),
                       content |-> StrV(<<"h">>)],
     delete_message |-> [channel_id |-> StrV(Chan1), message_id |-> StrV(Msg6)],
     add_reaction |-> [channel_id |-> StrV(Chan1), message_id |-> StrV(Msg5),
                       emoji |-> StrV(<<"x">>)],
     list_channels |-> [guild_id |-> StrV(Guild7)],
     get_channel_info |-> [channel_id |-> StrV(Chan1)],
     get_guild_info |-> [guild_id |-> StrV(Guild7)],
     list_guild_members |-> [guild_id |-> StrV(Guild7)],
     list_roles |-> [guild_id |-> StrV(Guild7)],
     get_role_info |-> [guild_id |-> StrV(Guild7), role_id |-> StrV(Role9)],
     create_role |-> [guild_id |-> StrV(Guild7), name |-> StrV(<<"r">>)],
     delete_role |-> [guild_id |-> StrV(Guild7), role_id |-> StrV(Role9)],
     assign_role |-> [guild_id |-> StrV(Guild7), role_id |-> StrV(Role9),
                      user_id |-> StrV(OtherUserID)],
     unassign_role |-> [guild_id |-> StrV(Guild7), role_id |-> StrV(Role9),
                        user_id |-> StrV(OtherUserID)]]

\* A payload that validates, the payloads that lack one of its fields, that
\* hold one field of the wrong type, and that hold an undefined field
Variants(args) ==
    {args, With(args, "bogus", StrV(<<"1">>))}
        \cup {Without(args, key) : key \in DOMAIN args}
        \cup {With(args, key, FloatV(2)) : key \in DOMAIN args}

\* get_channel_messages with each choice among before / after / around
Cursors ==
    {[key \in keys |-> StrV(Msg5)] @@ ValidArgs.get_channel_messages :
        keys \in SUBSET {"before", "after", "around"}}

SpecialArgs(name) ==
    CASE name = "get_channel_messages" -> Cursors
      [] name = "list_channels" ->
            {With(ValidArgs.list_channels, "type_filter", SliceV(<<SliceV(<<>>)>>)),
             With(ValidArgs.list_channels, "type_filter", SliceV(<<StrV(<<"t", "e", "x", "t">>)>>)),
             With(ValidArgs.list_channels, "type_filter", SliceV(<<StrV(<<"v", "o", "i", "c", "e">>)>>)),
             With(ValidArgs.list_channels, "include_permissions", BoolV(TRUE))}
      [] name = "get_channel_info" ->
            {With(ValidArgs.get_channel_info, "include_permissions", BoolV(TRUE)),
             With(ValidArgs.get_channel_info, "include_permissions", BoolV(FALSE))}
      [] name = "send_message" ->
            {With(ValidArgs.send_message, "tts", BoolV(TRUE)),
             With(ValidArgs.send_message, "embeds", SliceV(<<MapV([fields |-> SliceV(<<StrV(<<"f">>)>>)])>>))}
      [] OTHER -> {}

Payloads(name) ==
    IF name \in DOMAIN ValidArgs THEN Variants(ValidArgs[name]) \cup SpecialArgs(name)
    ELSE {NoArgs}

PermBits ==
    <<PermissionViewChannel, PermissionSendMessages, PermissionSendTTSMessages,
      PermissionManageMessages, PermissionReadMessageHistory, PermissionAddReactions,
      PermissionUseExternalEmojis>>

RECURSIVE MaskOf(_)
MaskOf(picked) ==
    IF picked = {} THEN 0
    ELSE LET i == CHOOSE j \in picked : TRUE
         IN PermBits[i] + MaskOf(picked \ {i})

Masks == {MaskOf(picked) : picked \in SUBSET (1..Len(PermBits))}

Role10 == <<"1", "0">>
Role11 == <<"1", "1">>

\* Worlds of the checker: every mask in guild channels; the member's roles
\* (role 11 is not in the state cache) and the roles' masks
ChannelWorlds == {World(mask, <<>>, <<>>, TRUE) : mask \in Masks}

GuildWorlds ==
    {World(0, roles, (Role9 :> p9) @@ (Role10 :> p10), cached) :
        roles \in {<<>>, <<Role9>>, <<Role10, Role9>>, <<Role9, Role11>>},
        p9 \in {0, PermissionManageRoles, PermissionViewChannel},
        p10 \in {0, BitOr(PermissionManageRoles, PermissionSendMessages)},
        cached \in BOOLEAN}

ToolWorlds ==
    {World(0, <<>>, <<>>, TRUE),
     World(MaskOf(1..Len(PermBits)), <<Role9>>, (Role9 :> PermissionManageRoles), TRUE),
     World(PermissionViewChannel, <<Role9>>, (Role9 :> PermissionManageRoles), FALSE),
     World(PermissionViewChannel + PermissionSendMessages + PermissionAddReactions, <<Role9>>,
           (Role9 :> PermissionSendMessages), TRUE)}

Chan4 == <<"4">>
Msg8 == <<"8">>

ChannelChecks ==
    {"CanSendMessages", "CanSendTTSMessages", "CanReadMessageHistory", "CanManageMessages",
     "CanAddReactions", "CanUseExternalEmojis", "CanViewChannel"}

FirstInstances == {HandlerList[j] : j \in {i \in 1..Len(HandlerList) : HandlerList[i].inst = 1}}

ExecuteInputs ==
    UNION {{[op |-> "execute", handler |-> h, args |-> args] : args \in Payloads(h.name)} :
             h \in FirstInstances}

\* The payloads made from one that validates by leaving out some of its
\* fields, replacing some of the others by a number or by a non-numeric
\* string, and adding or not a field the schema does not declare
Damaged(args) ==
    UNION {{[k \in DOMAIN args \ missing |-> IF k \in bad THEN v ELSE args[k]] @@ extra :
               bad \in SUBSET (DOMAIN args \ missing),
               v \in {FloatV(2), StrV(<<"x">>)},
               extra \in {NoArgs, [bogus |-> StrV(<<"1">>)]}} :
             missing \in SUBSET DOMAIN args}

\* Numbers as json.Unmarshal delivers them in arguments (float64: whole 10,
\* 1 and 0, fractional 10.5 and 0.5) and as a Go caller can pass them (int)
Numbers == {FloatV(20), FloatV(21), FloatV(2), FloatV(1), FloatV(0), IntV(10)}

\* A title one character longer than the embed schema allows
LongTitle == [i \in 1..(EmbedItemSchema.properties.title.maxLength + 1) |-> "a"]

\* edit_message payloads: a channel id that matches the pattern or not, the
\* message id, and content and embeds each absent, valid, over the limit of
\* the schema, or a number
EditArgs ==
    LET schema == ToolSchemas.edit_message.properties
        contents == {StrV(<<"h">>), StrV([i \in 1..(schema.content.maxLength + 1) |-> "a"]),
                     FloatV(2)}
        embeds == {SliceV(<<>>), SliceV(<<MapV(NoArgs)>>),
                   SliceV([i \in 1..(schema.embeds.maxItems + 1) |-> MapV(NoArgs)]),
                   FloatV(2)}
    IN {[channel_id |-> StrV(ch), message_id |-> StrV(Msg5)] @@ content @@ embed :
           ch \in {Chan1, <<"x">>},
           content \in {NoArgs} \cup {[content |-> v] : v \in contents},
           embed \in {NoArgs} \cup {[embeds |-> v] : v \in embeds}}

ValidatorArgs(name) ==
    CASE name = "get_channel_messages" ->
            {With(ValidArgs.get_channel_messages, "limit", v) : v \in Numbers}
      [] name = "send_message" ->
            {With(ValidArgs.send_message, "embeds", SliceV(<<MapV(embed)>>)) :
                embed \in {[title |-> StrV(<<"t">>)],
                           [title |-> StrV(LongTitle)],
                           [thumbnail |-> MapV([url |-> StrV(<<"u">>)])],
                           [thumbnail |-> MapV(NoArgs)]}}
      [] name = "edit_message" -> EditArgs
      [] OTHER -> {}

ValidatorPayloads(name) ==
    IF name \in DOMAIN ValidArgs
    THEN Payloads(name) \cup Damaged(ValidArgs[name]) \cup ValidatorArgs(name)
    ELSE Payloads(name)

ValidateInputs ==
    UNION {{[op |-> "validate", tool |-> name, args |-> args] :
               args \in ValidatorPayloads(name)} :
             name \in DOMAIN ValidArgs \cup {"ping"}}

CheckInputs ==
    {[op |-> "check", check |-> k, target |-> ch, message |-> Msg5] :
        k \in ChannelChecks, ch \in {Chan1, Chan2, Chan4}}
    \cup {[op |-> "check", check |-> k, target |-> g, message |-> Msg5] :
            k \in {"CanManageRoles", "CanViewGuild"}, g \in {Guild7, Guild8, <<"9">>}}
    \cup {[op |-> "check", check |-> k, target |-> ch, message |-> m] :
            k \in {"CanEditMessage", "CanDeleteMessage", "edit_message", "delete_message"},
            ch \in {Chan1, Chan2}, m \in {Msg5, Msg6, Msg8}}
    \cup {[op |-> "check", check |-> k, target |-> ch, message |-> Msg5] :
            k \in {"send_message", "get_messages", "add_reaction"}, ch \in {Chan1, Chan2}}

\* Schemas other than the tools': required [a, b] with only a declared, a
\* string of at most three characters; and one string property with a pattern
\* that compiles or with one that does not
MaxStrLen == 4

RequiredPairSchema ==
    [type |-> "object",
     properties |-> [a |-> [type |-> "string", maxLength |-> 3]],
     required |-> <<"a", "b">>]

PatternSchema(pattern) ==
    [type |-> "object",
     properties |-> [a |-> [type |-> "string", pattern |-> pattern],
                     b |-> [type |-> "string", pattern |-> pattern]]]

Strings == {[i \in 1..n |-> c] : n \in 0..MaxStrLen, c \in {"a", "7"}}

SchemaInputs ==
    {[op |-> "schema", schema |-> RequiredPairSchema,
      args |-> [a |-> StrV(s), b |-> StrV(<<"x">>)]] : s \in Strings}
    \cup {[op |-> "schema", schema |-> PatternSchema(pattern), args |-> args] :
             pattern \in {SnowflakePattern, BadPattern},
             args \in {[a |-> StrV(s)] : s \in Strings}
                         \cup {[a |-> StrV(s), b |-> StrV(s)] : s \in Strings}}

\* Guilds whose mask is resolved by itself
GuildMaskInputs == {[op |-> "guildmask", target |-> g] : g \in {Guild7, Guild8}}

\* An emoji of the custom form and the extra data ValidateMessageOperation
\* is handed: none, a message id that is a string or a number, tts set or
\* not, an emoji that is plain or custom
CustomEmoji == <<"<", ":", "e", ":", "1", ">">>

GateExtras ==
    {NoArgs, [message_id |-> StrV(Msg5)], [message_id |-> FloatV(2)],
     [tts |-> BoolV(TRUE)], [tts |-> BoolV(FALSE)],
     [emoji |-> StrV(<<"x">>)], [emoji |-> StrV(CustomEmoji)]}

GateOperations ==
    {"send_message", "get_messages", "edit_message", "delete_message", "add_reaction",
     "pin_message"}

GateInputs ==
    {[op |-> "gate", operation |-> o, target |-> Chan1, extra |-> e] :
        o \in GateOperations, e \in GateExtras}

ProbeInputs ==
    ExecuteInputs \cup ValidateInputs \cup CheckInputs \cup SchemaInputs \cup GuildMaskInputs
        \cup GateInputs

\* The limiter's list after RateLimitPerMinute calls were granted at time 0
Exhausted == [i \in 1..RateLimitPerMinute |-> 0]

InitFn ==
    /\ tools = <<>>
    /\ initialized = FALSE
    /\ connected \in BOOLEAN
    /\ pc = "startup"
    /\ nregs = 0
    /\ nread = 0
    /\ last = NoLast
    /\ out = <<>>
    /\ evs = [t \in 1..MaxEvents |-> [pc |-> "idle", name |-> "none"]]
    /\ svcMutex = 0
    /\ events = [enabled |-> FALSE, allowed |-> <<>>]
    /\ requests \in {<<>>, Exhausted}
    /\ now = 0
    /\ pats = <<>>
    /\ allowedGuilds \in {<<>>, <<Guild8>>}
    /\ probe \in ProbeInputs
    /\ answered = <<>>

\* handler.Execute(params) on the payload of the probe
ExecuteTool ==
    /\ probe.op = "execute"
    /\ \E order \in RangeOrders(probe.args), w \in ToolWorlds, f \in {{}, {1}, {3}, {6}} :
          LET Done(e, v) ==
                  /\ probe' = [op |-> "executed", handler |-> probe.handler,
                               args |-> probe.args, world |-> w, fails |-> f,
                               reqs |-> requests,
                               valid |-> v.err, result |-> e.result, err |-> e.err,
                               panic |-> e.panic, calls |-> e.c.calls]
                  /\ requests' = e.c.reqs
                  /\ pats' = e.c.pats
          IN Done(Execute(probe.handler, Context(w, f), probe.args, order),
                  ValidateToolParams(pats, probe.handler.name, probe.args, order))
    /\ UNCHANGED <<tools, initialized, connected, pc, nregs, nread, last, out, evs, svcMutex,
                   events, now, allowedGuilds, answered>>

\* validator.ValidateToolParams(toolName, params) on the payload of the probe
ValidateParams ==
    /\ probe.op = "validate"
    /\ \E order \in RangeOrders(probe.args) :
          LET Done(v) ==
                  /\ probe' = [op |-> "validated", tool |-> probe.tool, args |-> probe.args,
                               err |-> v.err]
                  /\ pats' = v.pats
          IN Done(ValidateToolParams(pats, probe.tool, probe.args, order))
    /\ UNCHANGED <<tools, initialized, connected, pc, nregs, nread, last, out, evs, svcMutex,
                   events, requests, now, allowedGuilds, answered>>

\* ValidateToolParams from the required check on, with the schema of the probe
\* in the place of the one looked up by the tool's name
ValidateAgainstSchema ==
    /\ probe.op = "schema"
    /\ \E order \in RangeOrders(probe.args) :
          LET Done(v) ==
                  /\ probe' = [op |-> "schema_validated", schema |-> probe.schema,
                               args |-> probe.args, err |-> v.err]
                  /\ pats' = v.pats
          IN Done(ValidateSchema(pats, probe.schema, probe.args, order))
    /\ UNCHANGED <<tools, initialized, connected, pc, nregs, nread, last, out, evs, svcMutex,
                   events, requests, now, allowedGuilds, answered>>

\* The same Validator asked again about the payload it has just validated:
\* its pattern cache is the one the first validation left
ValidateAgain ==
    /\ probe.op \in {"validated", "schema_validated"}
    /\ \E order \in RangeOrders(probe.args) :
          LET Done(v) ==
                  /\ probe' = [op |-> "revalidated", args |-> probe.args, first |-> probe.err,
                               cached |-> pats, err |-> v.err]
                  /\ pats' = v.pats
          IN Done(IF probe.op = "validated"
                  THEN ValidateToolParams(pats, probe.tool, probe.args, order)
                  ELSE ValidateSchema(pats, probe.schema, probe.args, order))
    /\ UNCHANGED <<tools, initialized, connected, pc, nregs, nread, last, out, evs, svcMutex,
                   events, requests, now, allowedGuilds, answered>>

\* The checker method the probe names
CheckerCall(check, c, target, message) ==
    CASE check = "CanSendMessages" -> CanSendMessages(c, target)
      [] check = "CanSendTTSMessages" -> CanSendTTSMessages(c, target)
      [] check = "CanReadMessageHistory" -> CanReadMessageHistory(c, target)
      [] check = "CanManageMessages" -> CanManageMessages(c, target)
      [] check = "CanAddReactions" -> CanAddReactions(c, target)
      [] check = "CanUseExternalEmojis" -> CanUseExternalEmojis(c, target)
      [] check = "CanViewChannel" -> CanViewChannel(c, target)
      [] check = "CanManageRoles" -> CanManageRoles(c, target)
      [] check = "CanViewGuild" -> CanViewGuild(c, target)
      [] check = "CanEditMessage" -> CanEditMessage(c, target, message)
      [] check = "CanDeleteMessage" -> CanDeleteMessage(c, target, message)
      [] OTHER -> ValidateMessageOperation(c, check, target, [message_id |-> StrV(message)])

CheckPermission ==
    /\ probe.op = "check"
    /\ \E w \in IF probe.check \in {"CanManageRoles", "CanViewGuild"}
                THEN GuildWorlds ELSE ChannelWorlds,
          f \in {{}, {1}} :
          LET Done(r) ==
                  /\ probe' = [op |-> "checked", check |-> probe.check,
                               target |-> probe.target, message |-> probe.message,
                               world |-> w, err |-> r.err, calls |-> r.c.calls]
                  /\ requests' = r.c.reqs
          IN Done(CheckerCall(probe.check, Context(w, f), probe.target, probe.message))
    /\ UNCHANGED <<tools, initialized, connected, pc, nregs, nread, last, out, evs, svcMutex,
                   events, now, pats, allowedGuilds, answered>>

\* c.getBotGuildPermissions(guildID) on the guild of the probe
ResolveGuildPermissions ==
    /\ probe.op = "guildmask"
    /\ \E w \in GuildWorlds, f \in {{}, {1}} :
          LET Done(r) ==
                  /\ probe' = [op |-> "guildmasked", target |-> probe.target, world |-> w,
                               err |-> r.err, permissions |-> r.permissions,
                               calls |-> r.c.calls]
                  /\ requests' = r.c.reqs
          IN Done(getBotGuildPermissions(Context(w, f), probe.target))
    /\ UNCHANGED <<tools, initialized, connected, pc, nregs, nread, last, out, evs, svcMutex,
                   events, now, pats, allowedGuilds, answered>>

\* c.ValidateMessageOperation(operation, channelID, extraData) on the probe
ValidateOperation ==
    /\ probe.op = "gate"
    /\ \E w \in ChannelWorlds :
          LET Done(r) ==
                  /\ probe' = [op |-> "gated", operation |-> probe.operation,
                               target |-> probe.target, extra |-> probe.extra,
                               world |-> w, err |-> r.err, calls |-> r.c.calls]
                  /\ requests' = r.c.reqs
          IN Done(ValidateMessageOperation(Context(w, {}), probe.operation, probe.target,
                                           probe.extra))
    /\ UNCHANGED <<tools, initialized, connected, pc, nregs, nread, last, out, evs, svcMutex,
                   events, now, pats, allowedGuilds, answered>>

NextFn ==
    \/ ExecuteTool
    \/ ResolveGuildPermissions
    \/ ValidateOperation
    \/ ValidateParams
    \/ ValidateAgainstSchema
    \/ ValidateAgain
    \/ CheckPermission

SpecFn == InitFn /\ [][NextFn]_vars

(***************************************************************************)
(* Properties of the session specification Spec.                            *)
(***************************************************************************)
AllowListed(name) == \E i \in 1..Len(events.allowed) : events.allowed[i] = name

WrittenBy(w) == \E i \in 1..Len(out) : out[i].w = w

LoopInWriteSection == pc \in {"write", "writing"}

NotifierInWriteSection(t) == evs[t].pc \in {"write", "writing"}

\* Every chunk that begins a line is followed by the rest of the same line
WholeLines ==
    \A i \in 1..Len(out) :
        /\ out[i].part = "head" /\ i < Len(out) => out[i + 1] = Chunk(out[i].w, "tail")
        /\ out[i].part = "tail" => i > 1 /\ out[i - 1] = Chunk(out[i].w, "head")

ListsTools(line) == line.kind = "req" /\ line.method = "tools/list"

KnownMethods == {"initialize", "initialized", "tools/list", "tools/call", "ping"}

IsUnknownMethod(line) == line.kind = "req" /\ line.method \notin KnownMethods

WritesExclusive ==
    /\ \A t \in 1..MaxEvents : ~(LoopInWriteSection /\ NotifierInWriteSection(t))
    /\ WholeLines

\* C4: on an initialized session, a tools/call that ran a registered tool's
\* handler is answered with a result envelope, never with a JSON-RPC error
\* or with nothing, and the tool result of every failed execution has
\* isError set.
FailuresAreToolResults ==
    (initialized /\ IsToolCall(last.line) /\ last.exec.ran)
        => /\ last.resp.kind = "result"
           /\ last.exec.err = NoErr
           /\ last.exec.result.category # "success" => last.resp.result.isError

\* C8: a callback goes on to Service.Send exactly when events are enabled
\* and its event name is in the allow-list; only such a callback writes to
\* the output, a callback whose Send returned has written, and a suppressed
\* callback has returned without taking the service's lock.
NotificationsGated ==
    \A t \in 1..MaxEvents :
        /\ evs[t].pc # "idle" =>
              (evs[t].pc \in {"send", "write", "writing", "sent", "logged"}
                  <=> (events.enabled /\ AllowListed(evs[t].name)))
        /\ WrittenBy(t) => evs[t].pc # "idle" /\ events.enabled /\ AllowListed(evs[t].name)
        /\ evs[t].pc = "sent" => WrittenBy(t)
        /\ evs[t].pc \in {"idle", "returned"} => ~WrittenBy(t) /\ svcMutex # t

\* An enabled, allow-listed event whose notification is in the output
NotificationWritten ==
    \E t \in 1..MaxEvents :
        /\ evs[t].pc = "sent"
        /\ events.enabled
        /\ AllowListed(evs[t].name)
        /\ \E i \in 1..Len(out) : out[i] = Chunk(t, "line")

ListedNames(resp) == {resp.result.tools[i].name : i \in 1..Len(resp.result.tools)}

ToolsListExact ==
    (initialized /\ ListsTools(last.line))
        => /\ last.resp.kind = "result"
           /\ last.resp.id = last.line.id
           /\ ListedNames(last.resp) = DOMAIN tools
           /\ Len(last.resp.result.tools) = Cardinality(DOMAIN tools)
           /\ \A i, j \in 1..Len(last.resp.result.tools) :
                 last.resp.result.tools[i].name = last.resp.result.tools[j].name => i = j

\* C9: on an initialized session tools/list answers with one entry for each
\* registered name, none for another name and no name twice; a registration
\* under a name in use replaces the handler and adds no name; and no step
\* taken once the server is serving changes the registry.
RegistryListedExactly ==
    /\ []ToolsListExact
    /\ [][nregs' = nregs + 1 =>
             \E i \in 1..NumHandlers :
                 /\ DOMAIN tools' = DOMAIN tools \cup {HandlerList[i].name}
                 /\ tools'[HandlerList[i].name] = HandlerList[i]]_vars
    /\ [][pc # "startup" => tools' = tools]_vars

\* tools/list answered with one entry after two registrations under one name
ListAfterReRegistration ==
    /\ initialized
    /\ ListsTools(last.line)
    /\ nregs = 2
    /\ last.resp.kind = "result"
    /\ Len(last.resp.result.tools) = 1
    /\ tools[last.resp.result.tools[1].name].inst = 2

UnknownMethodAnswered ==
    IsUnknownMethod(last.line)
        => /\ last.resp.kind = "error"
           /\ last.resp.code = MethodNotFound
           /\ last.resp.id = last.line.id
           /\ ~last.exec.ran

\* C10: a request that parses and names a method outside initialize,
\* initialized, tools/list, tools/call and ping is answered with the
\* MethodNotFound error under the request's id, whether or not the session
\* is initialized, and processing it changes neither the session flag nor
\* the registry, the connection, the limiter or the pattern cache.
UnknownMethodRejected ==
    /\ []UnknownMethodAnswered
    /\ [][(nread' = nread + 1 /\ IsUnknownMethod(last'.line)) =>
             /\ initialized' = initialized
             /\ tools' = tools
             /\ connected' = connected
             /\ requests' = requests
             /\ pats' = pats]_vars

\* An unknown method with an id, answered on an initialized session
UnknownMethodOnInitialized ==
    /\ initialized
    /\ IsUnknownMethod(last.line)
    /\ last.line.id # Nil
    /\ last.resp = ErrorResponse(last.line.id, MethodNotFound, "Method not found")

(***************************************************************************)
(* Properties of the function-level specification SpecFn.                   *)
(***************************************************************************)
\* Whether a mask made of distinct capability bits holds the bit b
HoldsBit(mask, b) == (mask \div b) % 2 = 1

ChecksOrRemoteCalls(calls) ==
    {i \in 1..Len(calls) : calls[i][1] \in {"check", "client", "session", "state"}}

\* C3: a handler of a tool with a parameter schema calls the validator
\* first, and when ValidateToolParams does not succeed the execution has
\* made no permission check and no call of the client, the session or its
\* state; when it returned an error the handler returned the validation
\* result built from that error, with a nil error.
ValidationFirst ==
    (probe.op = "executed" /\ HasToolSchema(probe.handler.name))
        => /\ Len(probe.calls) > 0
           /\ probe.calls[1] = <<"validate", probe.handler.name>>
           /\ probe.valid # NoErr =>
                 /\ ChecksOrRemoteCalls(probe.calls) = {}
                 /\ Len(probe.calls) = 1
           /\ probe.valid.kind \in {"validation", "error"} =>
                 /\ ~probe.panic
                 /\ probe.err = NoErr
                 /\ probe.result = FormatValidationError(probe.valid)

\* delete_role without its role_id, while the bot is connected
MissingFieldStopsDeleteRole ==
    /\ probe.op = "executed"
    /\ probe.handler.name = "delete_role"
    /\ connected
    /\ "role_id" \notin DOMAIN probe.args
    /\ "guild_id" \in DOMAIN probe.args
    /\ probe.valid.kind = "validation"
    /\ probe.valid.type = "missing required parameter"
    /\ probe.calls = <<(<<"validate", "delete_role">>)>>
    /\ probe.result.isError

SuppliedCursors(args) == DOMAIN args \cap {"before", "after", "around"}

\* C5: get_channel_messages with a valid channel_id fails validation when
\* two or more of before / after / around are supplied and passes when one
\* or none is.
CursorRule ==
    (probe.op = "validated" /\ probe.tool = "get_channel_messages" /\ probe.args \in Cursors)
        => (probe.err = NoErr <=> Cardinality(SuppliedCursors(probe.args)) <= 1)

EditChecked ==
    /\ probe.op = "checked"
    /\ probe.check \in {"CanEditMessage", "edit_message"}
    /\ probe.err.kind # "error"
    /\ probe.check = "edit_message" => HoldsBit(probe.world.mask, PermissionViewChannel)
    /\ RemoteChannels[probe.target] # NoGuild

Capability(check) ==
    CASE check = "CanSendMessages" -> <<PermissionSendMessages, "send_message", "SEND_MESSAGES">>
      [] check = "CanSendTTSMessages" ->
            <<PermissionSendTTSMessages, "send_tts_message", "SEND_TTS_MESSAGES">>
      [] check = "CanReadMessageHistory" ->
            <<PermissionReadMessageHistory, "read_messages", "READ_MESSAGE_HISTORY">>
      [] check = "CanManageMessages" -> <<PermissionManageMessages, "manage_messages", "MANAGE_MESSAGES">>
      [] check = "CanAddReactions" -> <<PermissionAddReactions, "add_reaction", "ADD_REACTIONS">>
      [] check = "CanUseExternalEmojis" ->
            <<PermissionUseExternalEmojis, "use_external_emoji", "USE_EXTERNAL_EMOJIS">>
      [] check = "CanViewChannel" -> <<PermissionViewChannel, "view_channel", "VIEW_CHANNEL">>
      [] check = "CanManageRoles" -> <<PermissionManageRoles, "manage_roles", "MANAGE_ROLES">>

\* Whether the mask the check resolved holds the bit: the DM mask in a DM
\* channel, the world's mask in a guild channel, the masks of the member's
\* roles in a guild
ResolvedHolds(b) ==
    IF probe.check = "CanManageRoles"
    THEN \E i \in 1..Len(probe.world.roles) :
            HoldsBit(probe.world.rolePerms[probe.world.roles[i]], b)
    ELSE IF RemoteChannels[probe.target] = NoGuild
    THEN b \in {PermissionSendMessages, PermissionReadMessageHistory, PermissionAddReactions}
    ELSE HoldsBit(probe.world.mask, b)

\* C7: a single-capability check that resolved the bot's mask passes if and
\* only if the mask holds the required bit, and its denial names the
\* operation, the missing capability and the channel or guild.
SingleCapabilityChecks ==
    (probe.op = "checked" /\ probe.check \in ChannelChecks \cup {"CanManageRoles"}
        /\ probe.err.kind # "error")
        => IF ResolvedHolds(Capability(probe.check)[1])
           THEN probe.err = NoErr
           ELSE /\ probe.err.kind = "perm"
                /\ probe.err.operation = Capability(probe.check)[2]
                /\ probe.err.permission = Capability(probe.check)[3]
                /\ probe.err.resource =
                      <<IF probe.check = "CanManageRoles" THEN "guild" ELSE "channel",
                        probe.target>>

\* CanManageMessages denying a mask that holds SEND_MESSAGES alone
SendOnlyDeniedManage ==
    /\ probe.op = "checked"
    /\ probe.check = "CanManageMessages"
    /\ probe.target = Chan1
    /\ probe.world.mask = PermissionSendMessages
    /\ probe.err.kind = "perm"
    /\ probe.err.operation = "manage_messages"
    /\ probe.err.permission = "MANAGE_MESSAGES"
    /\ probe.err.resource = <<"channel", Chan1>>

(***************************************************************************)
(* The rate limiter by itself: Allow is called again and again while the    *)
(* clock moves on.  The clock counts half windows.  The probe holds the     *)
(* limit, the times of the granted calls, the number of calls made, and of  *)
(* the last call its answer and how many granted calls were in its window.  *)
(***************************************************************************)
MaxTime == 4
MaxCalls == 4
MaxLimit == 2

InWindow(times, t) == SelectSeq(times, LAMBDA req : req > t - Window)

InitRate ==
    /\ tools = <<>>
    /\ initialized = FALSE
    /\ connected = TRUE
    /\ pc = "startup"
    /\ nregs = 0
    /\ nread = 0
    /\ last = NoLast
    /\ out = <<>>
    /\ evs = [t \in 1..MaxEvents |-> [pc |-> "idle", name |-> "none"]]
    /\ svcMutex = 0
    /\ events = [enabled |-> FALSE, allowed |-> <<>>]
    /\ requests = <<>>
    /\ now = 0
    /\ pats = <<>>
    /\ allowedGuilds = <<>>
    /\ \E m \in 0..MaxLimit :
          probe = [op |-> "limiter", maxReqs |-> m, granted |-> <<>>, asked |-> 0,
                   ok |-> FALSE, inWindow |-> 0]
    /\ answered = <<>>

\* time.Now() moves on between two calls
Tick ==
    /\ now < MaxTime
    /\ now' = now + 1
    /\ UNCHANGED <<tools, initialized, connected, pc, nregs, nread, last, out, evs, svcMutex,
                   events, requests, pats, allowedGuilds, probe, answered>>

\* rateLimiter.Allow()
AllowCall ==
    /\ probe.asked < MaxCalls
    /\ LET Done(r) ==
              /\ requests' = r.requests
              /\ probe' = [probe EXCEPT !.asked = @ + 1,
                                        !.ok = r.ok,
                                        !.inWindow = Len(InWindow(probe.granted, now)),
                                        !.granted = IF r.ok THEN Append(@, now) ELSE @]
       IN Done(AllowResult(requests, probe.maxReqs, now))
    /\ UNCHANGED <<tools, initialized, connected, pc, nregs, nread, last, out, evs, svcMutex,
                   events, now, pats, allowedGuilds, answered>>

NextRate == Tick \/ AllowCall

SpecRate == InitRate /\ [][NextRate]_vars

\* C23: at any time the granted calls within the last window are at most
\* maxReqs; a call is granted exactly when fewer than maxReqs granted calls
\* were in its window; the limiter's list holds, within the window, the
\* granted calls and nothing else, so a denied call leaves no trace; and with
\* maxReqs = 0 no call is granted.
RateLimited ==
    /\ Len(InWindow(probe.granted, now)) <= probe.maxReqs
    /\ probe.asked > 0 => (probe.ok <=> probe.inWindow < probe.maxReqs)
    /\ InWindow(requests, now) = InWindow(probe.granted, now)
    /\ probe.maxReqs = 0 => probe.granted = <<>>

\* A call was denied, and a later call, made after the window had moved on,
\* was granted
GrantedAfterDenial ==
    /\ probe.maxReqs > 0
    /\ probe.ok
    /\ probe.asked > Len(probe.granted)
    /\ Len(probe.granted) > probe.maxReqs

(***************************************************************************)
(* The serving loop (handleCommunication).                                  *)
(***************************************************************************)
\* The step that takes input line number nread + 1, of the given kind, and
\* dispatches it
Dispatches(kind) == nread' = nread + 1 /\ last'.seq = nread' /\ last'.line.kind = kind

ParseErrorResponse == ErrorResponse(Nil, ParseError, "Parse error")

\* C11: a line that does not parse as a request is answered with the
\* ParseError response, which carries no id; processing it changes neither
\* the initialized flag nor the registry, and the loop goes on to write the
\* response and to read the next line instead of ending.
ParseErrorAnswered ==
    [][Dispatches("garbage")
         => /\ last'.resp = ParseErrorResponse
            /\ last'.resp.id = Nil
            /\ ~last'.exec.ran
            /\ initialized' = initialized
            /\ tools' = tools
            /\ pc' = "write"]_vars

\* The loop answered a malformed line and then served the ping on the next
\* line
ParseErrorThenServed ==
    /\ Len(answered) = 2
    /\ answered[1] = [seq |-> 1, resp |-> ParseErrorResponse]
    /\ answered[2] = [seq |-> 2, resp |-> ResultResponse(Id2, [status |-> "pong"])]

\* C12: the loop is ended only by a step that dispatches no line (the end of
\* the input, a failed read, a failed write of a response) and never by the
\* processing of a line, whatever the line holds; once a write has failed no
\* further line is dispatched.
LoopEndsOnlyOnIO ==
    [][/\ (Serving /\ ~Serving') => (nread' = nread /\ pc' \in {"returned", "failed"})
       /\ (pc = "failed") => (nread' = nread /\ pc' = "failed")]_vars

Validated == probe.op = "validated" /\ HasToolSchema(probe.tool)

RequiredOf(tool) ==
    IF Has(GetToolSchema(tool), "required") THEN GetToolSchema(tool).required ELSE <<>>

DeclaredOf(tool) ==
    IF Has(GetToolSchema(tool), "properties") THEN DOMAIN GetToolSchema(tool).properties
    ELSE {}

MissingRequired(tool, args) ==
    {i \in 1..Len(RequiredOf(tool)) : RequiredOf(tool)[i] \notin DOMAIN args}

Undeclared(tool, args) == DOMAIN args \ DeclaredOf(tool)

FirstOf(S) == CHOOSE i \in S : \A j \in S : i <= j

\* C14: a payload that lacks a field of the required list fails with the
\* "missing required parameter" failure whose message names the first field
\* of the list, in the list's order, that the payload lacks, whatever else
\* the payload holds (undeclared fields, fields of the wrong type or shape).
RequiredCheckFirst ==
    (Validated /\ MissingRequired(probe.tool, probe.args) # {})
        => probe.err = NewValidationError(
                           "missing required parameter",
                           "required parameter '"
                              \o RequiredOf(probe.tool)[FirstOf(MissingRequired(probe.tool, probe.args))]
                              \o "' is missing",
                           NoField)

\* edit_message given neither of its ids, a number for content and an
\* undeclared field: the failure names channel_id
TwoMissingAmongOtherFaults ==
    /\ Validated
    /\ probe.tool = "edit_message"
    /\ probe.args = [content |-> FloatV(2), bogus |-> StrV(<<"1">>)]
    /\ probe.err.kind = "validation"
    /\ probe.err.type = "missing required parameter"
    /\ probe.err.message = "required parameter 'channel_id' is missing"

\* C15: a payload that holds every required field and at least one field the
\* schema does not declare fails with the "unknown parameter" failure on an
\* undeclared field, whether or not a declared field of the payload violates
\* its own constraints.
UnknownFieldFirst ==
    (/\ Validated
     /\ MissingRequired(probe.tool, probe.args) = {}
     /\ Undeclared(probe.tool, probe.args) # {})
        => /\ probe.err.kind = "validation"
           /\ probe.err.type = "unknown parameter"
           /\ probe.err.field \in Undeclared(probe.tool, probe.args)

\* Twice a number that has a fractional part is odd
Fractional(value) == value.h % 2 = 1

\* C16: the type check of an integer property (limit of get_channel_messages)
\* rejects a number, with the type-mismatch failure on the field, exactly when
\* the number has a fractional part; a whole number decoded from JSON passes it.
IntegerTypeCheck ==
    (/\ Validated
     /\ probe.tool = "get_channel_messages"
     /\ DOMAIN probe.args = {"channel_id", "limit"}
     /\ probe.args.channel_id = StrV(Chan1)
     /\ probe.args.limit.k \in {"int", "float64"})
        => (probe.err = NewValidationError("type mismatch", "must be an integer", "limit")
              <=> Fractional(probe.args.limit))

\* An embed whose title is longer than the nested schema allows, or whose
\* thumbnail lacks the url the nested schema requires
EmbedFault(embed) ==
    /\ embed.k = "map"
    /\ \/ /\ Has(embed.m, "title")
          /\ embed.m.title.k = "string"
          /\ Len(embed.m.title.s) > EmbedItemSchema.properties.title.maxLength
       \/ /\ Has(embed.m, "thumbnail")
          /\ embed.m.thumbnail.k = "map"
          /\ ~Has(embed.m.thumbnail.m, "url")

\* C17: a send_message payload one of whose embeds violates the nested
\* schema of the embed object (title too long, thumbnail without url) fails
\* validation.
NestedObjectsValidated ==
    (/\ Validated
     /\ probe.tool = "send_message"
     /\ Has(probe.args, "embeds")
     /\ probe.args.embeds.k = "slice"
     /\ \E i \in 1..Len(probe.args.embeds.items) : EmbedFault(probe.args.embeds.items[i]))
        => probe.err.kind = "validation"

SchemaValidated(schema) == probe.op = "schema_validated" /\ probe.schema = schema

TooLong(paramName) == NewValidationError("length constraint", "too long", paramName)

UnknownParameter(paramName) ==
    NewValidationError("unknown parameter", "parameter '" \o paramName \o "' is not defined",
                       paramName)

IsSnowflake(value) ==
    /\ value.k = "string"
    /\ Len(value.s) >= 1
    /\ \A i \in 1..Len(value.s) : value.s[i] \in Digits

\* What the edit_message schema asks of each field by itself
EditFieldValid(key, value) ==
    CASE key \in {"channel_id", "message_id"} -> IsSnowflake(value)
      [] key = "content" -> value.k = "string" /\ Len(value.s) <= 2000
      [] key = "embeds" -> value.k = "slice" /\ Len(value.items) <= 10
      [] OTHER -> FALSE

EditFieldsValid(args) == \A key \in DOMAIN args : EditFieldValid(key, args[key])

ConditionalFailure ==
    NewValidationError("conditional constraint",
                       "at least one of the specified conditions must be met", NoField)

EditValidated ==
    /\ Validated
    /\ probe.tool = "edit_message"
    /\ {"channel_id", "message_id"} \subseteq DOMAIN probe.args
    /\ DOMAIN probe.args \subseteq DeclaredOf("edit_message")

\* C19: an edit_message payload with valid ids passes exactly when content or
\* embeds is present and every field present is valid; with neither present
\* it fails with the conditional-constraint failure, which carries no field;
\* and that failure is given only to payloads all of whose fields are valid.
EditNeedsContentOrEmbeds ==
    EditValidated
        => /\ (IsSnowflake(probe.args.channel_id) /\ IsSnowflake(probe.args.message_id))
                => /\ probe.err = NoErr
                        <=> /\ DOMAIN probe.args \cap {"content", "embeds"} # {}
                            /\ EditFieldsValid(probe.args)
                   /\ DOMAIN probe.args \cap {"content", "embeds"} = {}
                        => (probe.err = ConditionalFailure /\ probe.err.field = NoField)
           /\ (probe.err.kind = "validation" /\ probe.err.type = "conditional constraint")
                => EditFieldsValid(probe.args)

\* edit_message with its two ids and nothing to change was refused
EditWithNothingToChange ==
    /\ EditValidated
    /\ probe.args = [channel_id |-> StrV(Chan1), message_id |-> StrV(Msg5)]
    /\ probe.err = ConditionalFailure

\* C20: the pattern cache cannot be observed.  A payload validated a second
\* time, on the cache the first validation left, is accepted exactly if it
\* was accepted on the fresh Validator; no step removes or changes an entry of
\* the cache; and every entry is a pattern that compiles, held under its own
\* string with its compiled form, so a pattern that fails to compile is never
\* in the cache.
CacheInvisible ==
    [][/\ probe'.op = "revalidated" => ((probe'.err = NoErr) <=> (probe.err = NoErr))
       /\ \A p \in DOMAIN pats : p \in DOMAIN pats' /\ pats'[p] = pats[p]
       /\ \A p \in DOMAIN pats' : RegexpCompiles(p) /\ pats'[p] = RegexpCompile(p)]_vars

\* A string of digits was accepted against the snowflake pattern on a fresh
\* Validator and again on the Validator holding the compiled pattern
AcceptedFreshAndCached ==
    /\ probe.op = "revalidated"
    /\ probe.args = [a |-> StrV(<<"7", "7">>)]
    /\ probe.cached = (SnowflakePattern :> RegexpCompile(SnowflakePattern))
    /\ probe.first = NoErr
    /\ probe.err = NoErr
    /\ pats = probe.cached

(***************************************************************************)
(* Notifications (Service.Send and the event callbacks).                    *)
(***************************************************************************)
\* The transport loop's own state
loopVars == <<tools, initialized, connected, pc, nregs, nread, last, answered, requests, pats>>

\* C21: a callback whose notification write does not complete ends there: it
\* releases the Service mutex and is over, with the failure logged; the step
\* writes nothing and leaves the initialized flag and the whole state of the
\* transport loop as they were; the callback never goes back to sending
\* (no retry, nothing kept for later); and no whole notification line of that
\* callback is ever in the output.
NotificationFireAndForget ==
    [][\A t \in 1..MaxEvents :
          /\ (evs[t].pc \in {"write", "writing"} /\ evs'[t].pc \notin {"write", "writing", "sent"})
                => /\ evs'[t].pc = "logged"
                   /\ svcMutex' = 0
                   /\ out' = out
                   /\ loopVars' = loopVars
          /\ evs[t].pc = "logged"
                => /\ evs'[t] = evs[t]
                   /\ \A i \in 1..Len(out') : out'[i] \notin {Chunk(t, "line"), Chunk(t, "tail")}]_vars

\* A notification write failed, and afterwards the loop read a line and wrote
\* its response
LoopServesAfterFailedNotification ==
    /\ evs[1].pc = "logged"
    /\ pc = "scan"
    /\ Len(answered) > 0
    /\ answered[Len(answered)].seq > evs[1].at

(***************************************************************************)
(* The guild allow-list (allowed_guilds).                                   *)
(***************************************************************************)
\* The guild a valid payload addresses: by guild_id, or as the guild of the
\* channel its channel_id names (NoGuild for a DM channel)
TargetGuild(args) ==
    IF Has(args, "guild_id") THEN args.guild_id.s
    ELSE IF Has(args, "channel_id") /\ args.channel_id.s \in DOMAIN RemoteChannels
    THEN RemoteChannels[args.channel_id.s]
    ELSE NoGuild

Listed(guild) == \E i \in 1..Len(allowedGuilds) : allowedGuilds[i] = guild

\* C22: with a non-empty allowed_guilds, no tool succeeds on a guild outside
\* the list: the execution of a tool on a valid payload that addresses such a
\* guild, by guild id or through a channel of that guild, ends in an error
\* result.
GuildAccessRestricted ==
    (/\ probe.op = "executed"
     /\ probe.valid = NoErr
     /\ ~probe.panic
     /\ allowedGuilds # <<>>
     /\ TargetGuild(probe.args) # NoGuild
     /\ ~Listed(TargetGuild(probe.args)))
        => probe.result.isError

(***************************************************************************)
(* tools/call on names and params the server cannot serve.                  *)
(***************************************************************************)
\* The line processed last is a tools/call.  Neither such a line nor anything
\* after startup changes the registry or resets the flag, so both are as the
\* line found them.
ToolCallProcessed == nread > 0 /\ IsToolCall(last.line)

\* C24: on an initialized session a tools/call whose params decode and name
\* no registered tool gets MethodNotFound with the request's id and the name
\* in the message, and one whose params are absent or do not decode gets
\* InvalidParams; no handler runs in either case; and on a session not yet
\* initialized both get the InvalidRequest of the initialization check.
ToolCallRejections ==
    ToolCallProcessed
        => /\ (initialized /\ last.line.params.k \in {"absent", "mistyped"})
                => /\ last.resp = ErrorResponse(last.line.id, InvalidParams, "Invalid parameters")
                   /\ ~last.exec.ran
           /\ (initialized /\ last.line.params.k = "call"
                  /\ last.line.params.name \notin DOMAIN tools)
                => /\ last.resp = ErrorResponse(last.line.id, MethodNotFound,
                                                "Tool not found: " \o last.line.params.name)
                   /\ ~last.exec.ran
           /\ ~initialized
                => /\ last.resp = ErrorResponse(last.line.id, InvalidRequest,
                                                "Server not initialized")
                   /\ ~last.exec.ran

\* An initialized session with a registry that is not empty was asked for a
\* tool that is not in it
UnknownToolCalled ==
    /\ ToolCallProcessed
    /\ initialized
    /\ DOMAIN tools # {}
    /\ last.line.params.k = "call"
    /\ last.line.params.name = "no_such_tool"
    /\ last.resp.code = MethodNotFound
    /\ pc = "scan"

(***************************************************************************)
(* The guild mask behind CanManageRoles.                                     *)
(***************************************************************************)
\* The roles of the bot member in the world of the probe
HeldRoles == {probe.world.roles[i] : i \in 1..Len(probe.world.roles)}

AllRolesResolve == HeldRoles \subseteq DOMAIN probe.world.rolePerms

\* The guild and the member were found: State.Member or State.Role was asked
MemberFound == \E i \in 1..Len(probe.calls) : probe.calls[i][1] = "state"

GuildBits == {PermBits[i] : i \in 1..Len(PermBits)} \cup {PermissionManageRoles}

AsksRolesOrMask(calls) ==
    \E i \in 1..Len(calls) :
       \/ calls[i][1] = "state"
       \/ calls[i][1] = "session" /\ calls[i][2] \in {"UserChannelPermissions", "GuildMember"}

\* C26: in a channel without a guild ValidateMessageOperation passes
\* send_message without tts, get_messages and add_reaction without an
\* external emoji whenever the channel is found, and asks for no role and no
\* channel mask on the way.
DMBasicOperationsPass ==
    (probe.op = "checked"
        /\ probe.check \in {"send_message", "get_messages", "add_reaction"}
        /\ probe.target \in DOMAIN RemoteChannels
        /\ RemoteChannels[probe.target] = NoGuild
        /\ probe.err.kind # "error")
        => /\ probe.err = NoErr
           /\ ~AsksRolesOrMask(probe.calls)

(***************************************************************************)
(* list_channels and its type_filter.                                        *)
(***************************************************************************)
Elements(s) == {s[i] : i \in 1..Len(s)}

\* The types a type_filter that passes the schema names
FilterTypes(args) == {args.type_filter.items[i].s : i \in 1..Len(args.type_filter.items)}

ValidTypeFilter(args) ==
    /\ Has(args, "type_filter")
    /\ args.type_filter.k = "slice"
    /\ \A i \in 1..Len(args.type_filter.items) :
          /\ args.type_filter.items[i].k = "string"
          /\ args.type_filter.items[i].s \in Elements(ChannelTypeEnum)

ListedChannels == {probe.result.detail.data[i].id : i \in 1..Len(probe.result.detail.data)}

\* C27: a list_channels call that succeeds returns, under a valid
\* type_filter, exactly the channels of the guild whose type is one of the
\* filter's, and without a type_filter all channels of the guild.
TypeFilterApplied ==
    (probe.op = "executed" /\ probe.handler.name = "list_channels"
        /\ probe.valid = NoErr /\ ~probe.panic /\ ~probe.result.isError)
        => ListedChannels =
              {ch \in Elements(GuildChannelList(probe.args.guild_id.s)) :
                  ValidTypeFilter(probe.args)
                     => channelTypeToString(ch) \in FilterTypes(probe.args)}

(***************************************************************************)
(* Notifications and the state of the session.                               *)
(***************************************************************************)
\* C28: no callback writes to the output while the session is not
\* initialized.  The flag is never reset, so part of a notification in the
\* output of a session that is not initialized was written before the
\* initialized message was processed.
NotificationsAfterInitialized ==
    \A t \in 1..MaxEvents : WrittenBy(t) => initialized

(***************************************************************************)
(* The initialized flag.                                                     *)
(***************************************************************************)
\* The step processes a line whose method is initialized
ProcessesInitialized == Dispatches("req") /\ last'.line.method = "initialized"

\* C29: the flag is false at first; processing an initialized message sets
\* it, whether or not an initialize came before; no other step changes it,
\* be it another method, a malformed or an empty line, or anything outside
\* the loop; and once set it stays set.
InitializedFlag ==
    /\ ~initialized
    /\ [][/\ ProcessesInitialized => initialized'
          /\ ~ProcessesInitialized => initialized' = initialized
          /\ initialized => initialized']_vars

\* The first line of the session was the initialized message and set the flag
InitializedWithoutInitialize ==
    /\ nread = 1
    /\ last.seq = 1
    /\ last.line.kind = "req"
    /\ last.line.method = "initialized"
    /\ initialized

(***************************************************************************)
(* Responses per input line.                                                 *)
(***************************************************************************)
\* The step reads an empty line: a line is consumed and nothing is processed
SkipsEmptyLine == nread' = nread + 1 /\ last' = last

\* The step processes a line that is not an initialized message
ProcessesAnswerable ==
    \/ Dispatches("garbage")
    \/ Dispatches("req") /\ last'.line.method # "initialized"

\* C30: a line whose method is initialized gets no response, with or without
\* an id, and neither does an empty line; every other line, with or without
\* an id, gets a response that the loop goes on to write; ping, and
\* initialize with params that are absent or decode, get a result in either
\* state of the session; and no line is answered twice.
OneResponsePerLine ==
    /\ [](\A i, j \in 1..Len(answered) : i < j => answered[i].seq < answered[j].seq)
    /\ [][/\ ProcessesInitialized
              => last'.resp = NoResponse /\ pc' = "scan" /\ out' = out /\ answered' = answered
          /\ SkipsEmptyLine => pc' = "scan" /\ out' = out /\ answered' = answered
          /\ ProcessesAnswerable => last'.resp # NoResponse /\ pc' = "write"
          /\ (Dispatches("req") /\ last'.line.method \in {"ping", "initialize"}
                 /\ last'.line.params.k # "mistyped")
              => last'.resp.kind = "result" /\ last'.resp.id = last'.line.id]_vars

(***************************************************************************)
(* The notification service by itself: the callbacks of several events run  *)
(* at once while the loop waits for input.  The probe holds whether the      *)
(* service was constructed with a writer.                                    *)
(***************************************************************************)
NumNotifiers == 2

InitNotify ==
    /\ tools = <<>>
    /\ initialized = FALSE
    /\ connected = TRUE
    /\ pc = "scan"
    /\ nregs = 0
    /\ nread = 0
    /\ last = NoLast
    /\ out = <<>>
    /\ evs = [t \in 1..NumNotifiers |-> [pc |-> "idle", name |-> "none"]]
    /\ svcMutex = 0
    /\ events \in [enabled : BOOLEAN, allowed : AllowLists]
    /\ requests = <<>>
    /\ now = 0
    /\ pats = <<>>
    /\ allowedGuilds = <<>>
    /\ probe \in {[op |-> "service", writer |-> w] : w \in BOOLEAN}
    /\ answered = <<>>

NextNotify ==
    \E t \in 1..NumNotifiers :
       \/ HandleMessageCreate(t)
       \/ HandleGuildMemberAdd(t)
       \/ HandleMessageReactionAdd(t)
       \/ SendLock(t)
       \/ SendNoWriter(t)
       \/ SendMarshalFails(t)
       \/ SendWrite(t)
       \/ SendWriteHead(t)
       \/ SendWriteTail(t)
       \/ SendWriteFails(t)

SpecNotify == InitNotify /\ [][NextNotify]_vars

\* The callbacks that are between Send's Lock and its return
InSend == {t \in DOMAIN evs : evs[t].pc \in {"write", "writing"}}

\* C31: at most one callback is between Send's Lock and its return, and it
\* is the one that holds the mutex; when none is, the mutex is free, so a
\* Send that returned, written or failed for the writer, the marshalling or
\* the write, does not hold it; and the parts of a line that was written in
\* two parts are next to each other in the output, unless the write failed
\* after the first.
NotificationsSerialized ==
    /\ Cardinality(InSend) <= 1
    /\ \A t \in DOMAIN evs : t \in InSend <=> svcMutex = t
    /\ InSend = {} => svcMutex = 0
    /\ \A i \in 1..Len(out) :
          out[i].part = "head"
             => IF i = Len(out) THEN evs[out[i].w].pc \in {"writing", "logged"}
                ELSE \/ out[i + 1] = Chunk(out[i].w, "tail")
                     \/ evs[out[i].w].pc = "logged"
    /\ \A i \in 1..Len(out) : out[i].part = "tail" => i > 1 /\ out[i - 1] = Chunk(out[i].w, "head")

\* One callback is in the middle of its line while the other waits for the
\* mutex
NotifierWaitsForWriter ==
    /\ evs[1].pc = "send"
    /\ evs[2].pc = "writing"
    /\ svcMutex = 2

(***************************************************************************)
(* Mutating tools and their permission checks.                               *)
(***************************************************************************)
MutatingTools ==
    {"send_message", "edit_message", "delete_message", "add_reaction",
     "create_role", "delete_role", "assign_role", "unassign_role"}

\* The session operations that change the remote service
Mutations ==
    {"ChannelMessageSendComplex", "ChannelMessageEditComplex", "ChannelMessageDelete",
     "MessageReactionAdd", "GuildRoleCreate", "GuildRoleDelete", "GuildMemberRoleAdd",
     "GuildMemberRoleRemove"}

MutationCalls(calls) ==
    {i \in 1..Len(calls) : calls[i][1] = "session" /\ calls[i][2] \in Mutations}

CheckCalls(calls) == {i \in 1..Len(calls) : calls[i][1] = "check"}

\* What the world of the probe grants for the payload of the probe, read off
\* the masks: the channel mask for the message tools, the masks of the
\* member's roles for the role tools
WorldGrants ==
    LET mask == probe.world.mask
        args == probe.args
        own == RemoteMessages[args.message_id.s] = BotID
        view == HoldsBit(mask, PermissionViewChannel)
        name == probe.handler.name
    IN CASE name = "send_message" ->
               /\ view
               /\ HoldsBit(mask, PermissionSendMessages)
               /\ (Has(args, "tts") /\ args.tts.b) => HoldsBit(mask, PermissionSendTTSMessages)
         [] name = "edit_message" ->
               /\ view
               /\ IF own THEN HoldsBit(mask, PermissionSendMessages)
                  ELSE HoldsBit(mask, PermissionManageMessages)
         [] name = "delete_message" ->
               view /\ (own \/ HoldsBit(mask, PermissionManageMessages))
         [] name = "add_reaction" ->
               /\ view
               /\ HoldsBit(mask, PermissionAddReactions)
               /\ isExternalEmoji(args.emoji.s) => HoldsBit(mask, PermissionUseExternalEmojis)
         [] OTHER ->
               \E i \in 1..Len(probe.world.roles) :
                  /\ probe.world.roles[i] \in DOMAIN probe.world.rolePerms
                  /\ HoldsBit(probe.world.rolePerms[probe.world.roles[i]], PermissionManageRoles)

\* C32: a mutating tool issues its remote mutation only in an execution
\* whose payload validated, whose permission check was made before it and
\* whose world grants the operation, and it issues it once, as its last
\* call; an execution that issued none, be it for a denial or for any other
\* error of the check, returned an isError result.
MutationOnlyAfterGrant ==
    (probe.op = "executed" /\ probe.handler.name \in MutatingTools /\ ~probe.panic)
        => /\ MutationCalls(probe.calls) # {}
                => /\ probe.valid = NoErr
                   /\ connected
                   /\ WorldGrants
                   /\ MutationCalls(probe.calls) = {Len(probe.calls)}
                   /\ CheckCalls(probe.calls) # {}
                   /\ \A i \in CheckCalls(probe.calls) : i < Len(probe.calls)
           /\ MutationCalls(probe.calls) = {} => probe.result.isError
           /\ probe.err = NoErr

\* assign_role went through: CanManageRoles was asked, the member's role
\* has MANAGE_ROLES, and the role was assigned as the last call
RoleAssignedAfterGrant ==
    /\ probe.op = "executed"
    /\ probe.handler.name = "assign_role"
    /\ probe.world.roles = <<Role9>>
    /\ WorldGrants
    /\ <<"check", "manage_roles">> \in {probe.calls[i] : i \in 1..Len(probe.calls)}
    /\ probe.calls[Len(probe.calls)] = <<"session", "GuildMemberRoleAdd", Role9>>
    /\ ~probe.result.isError

(***************************************************************************)
(* Tools while the rate limiter has nothing left.                            *)
(***************************************************************************)
\* The limiter had no capacity left when the execution began
StartedExhausted == Len(InWindow(probe.reqs, now)) >= RateLimitPerMinute

RemoteCalls(calls) == {i \in 1..Len(calls) : calls[i][1] \in {"session", "state"}}

\* C33: an execution that begins with the limiter exhausted returns an
\* isError result, issues no mutation and leaves the limiter's list as it
\* was; when the client is connected and the execution got past the checks
\* of the payload it ended at a call of the client, GetBotUser or GetGuild,
\* with no call of the session or its state before it.
ExhaustedLimiterStopsTools ==
    (probe.op = "executed" /\ StartedExhausted /\ ~probe.panic)
        => /\ probe.result.isError
           /\ probe.err = NoErr
           /\ MutationCalls(probe.calls) = {}
           /\ requests = probe.reqs
           /\ (connected /\ ChecksOrRemoteCalls(probe.calls) # {})
                => /\ probe.calls[Len(probe.calls)][1] = "client"
                   /\ probe.calls[Len(probe.calls)][2] \in {"GetBotUser", "GetGuild"}
                   /\ RemoteCalls(probe.calls) = {}

\* send_message with a valid payload and every capability, refused because
\* the limiter was exhausted
SendRefusedByLimiter ==
    /\ probe.op = "executed"
    /\ probe.handler.name = "send_message"
    /\ StartedExhausted
    /\ connected
    /\ probe.valid = NoErr
    /\ WorldGrants
    /\ probe.result.isError
    /\ probe.calls[Len(probe.calls)] = <<"client", "GetBotUser">>

(***************************************************************************)
(* The client by itself: Connect, Disconnect and the client's methods are   *)
(* called in any order while the remote service opens, closes and answers   *)
(* or fails to.  The probe holds the call made last, the flag and the        *)
(* limiter's list before it, what it returned and the calls it made.         *)
(***************************************************************************)
ClientMethods ==
    {"GetBotUser", "GetGuild", "GetChannels", "SendMessage", "GetChannelMessages", "Ping"}

ClientMethod(name, c, content) ==
    CASE name = "GetBotUser" -> GetBotUser(c)
      [] name = "GetGuild" -> GetGuild(c, Guild7)
      [] name = "GetChannels" -> GetChannels(c, Guild7)
      [] name = "SendMessage" -> SendMessage(c, Chan1, content)
      [] name = "GetChannelMessages" -> GetChannelMessages(c, Chan1, 50)
      [] name = "Ping" -> ClientPing(c)

InitClient ==
    /\ tools = <<>>
    /\ initialized = FALSE
    /\ connected = FALSE
    /\ pc = "startup"
    /\ nregs = 0
    /\ nread = 0
    /\ last = NoLast
    /\ out = <<>>
    /\ evs = [t \in 1..MaxEvents |-> [pc |-> "idle", name |-> "none"]]
    /\ svcMutex = 0
    /\ events = [enabled |-> FALSE, allowed |-> <<>>]
    /\ requests = <<>>
    /\ now = 0
    /\ pats = <<>>
    /\ allowedGuilds \in {<<>>, <<Guild8>>}
    /\ probe = NoProbe
    /\ answered = <<>>

\* Client.Connect; opens is whether session.Open succeeds
Connect ==
    /\ \E opens \in BOOLEAN :
          IF connected
          THEN /\ probe' = [op |-> "connect", was |-> TRUE, reqs |-> requests, err |-> NoErr,
                            session |-> <<>>]
               /\ connected' = connected
          ELSE /\ probe' = [op |-> "connect", was |-> FALSE, reqs |-> requests,
                            err |-> IF opens THEN NoErr
                                    ELSE PlainError("failed to open Discord connection"),
                            session |-> <<"Open">>]
               /\ connected' = opens
    /\ UNCHANGED <<tools, initialized, pc, nregs, nread, last, out, evs, svcMutex, events,
                   requests, now, pats, allowedGuilds, answered>>

\* Client.Disconnect; closes is whether session.Close succeeds
Disconnect ==
    /\ \E closes \in BOOLEAN :
          IF ~connected
          THEN /\ probe' = [op |-> "disconnect", was |-> FALSE, reqs |-> requests,
                            err |-> NoErr, session |-> <<>>]
               /\ connected' = connected
          ELSE /\ probe' = [op |-> "disconnect", was |-> TRUE, reqs |-> requests,
                            err |-> IF closes THEN NoErr
                                    ELSE PlainError("failed to close Discord connection"),
                            session |-> <<"Close">>]
               /\ connected' = ~closes
    /\ UNCHANGED <<tools, initialized, pc, nregs, nread, last, out, evs, svcMutex, events,
                   requests, now, pats, allowedGuilds, answered>>

\* One of the client's methods is called
ClientCall ==
    /\ \E name \in ClientMethods, f \in {{}, {1}}, content \in {<<"h">>, <<"h", "e", "y">>} :
          LET Done(r) ==
                  /\ probe' = [op |-> "call", method |-> name, was |-> connected,
                               reqs |-> requests, err |-> r.err, calls |-> r.c.calls]
                  /\ requests' = r.c.reqs
          IN Done(ClientMethod(name, Context(World(0, <<>>, <<>>, TRUE), f), content))
    /\ UNCHANGED <<tools, initialized, connected, pc, nregs, nread, last, out, evs, svcMutex,
                   events, now, pats, allowedGuilds, answered>>

NextClient == Connect \/ Disconnect \/ ClientCall

SpecClient == InitClient /\ [][NextClient]_vars

\* C34: Connect on a connected client and Disconnect on a disconnected one
\* return nil without a call of the session and leave the flag; a Connect
\* whose Open fails leaves the client disconnected and a Disconnect whose
\* Close fails leaves it connected; and a method called on a disconnected
\* client returns the not-connected error, calls neither the session nor its
\* state and leaves the limiter's list as it was.
ConnectionState ==
    /\ probe.op = "connect"
          => /\ probe.was => probe.err = NoErr /\ probe.session = <<>> /\ connected
             /\ ~probe.was => probe.session = <<"Open">> /\ (connected <=> probe.err = NoErr)
    /\ probe.op = "disconnect"
          => /\ ~probe.was => probe.err = NoErr /\ probe.session = <<>> /\ ~connected
             /\ probe.was => probe.session = <<"Close">> /\ (~connected <=> probe.err = NoErr)
    /\ probe.op \in {"connect", "disconnect"} => requests = probe.reqs
    /\ (probe.op = "call" /\ ~probe.was)
          => /\ probe.err = PlainError("not connected to Discord")
             /\ RemoteCalls(probe.calls) = {}
             /\ requests = probe.reqs
             /\ ~connected

\* SendMessage was refused on a client that had been connected, had granted
\* a call and was disconnected again
RefusedAfterDisconnect ==
    /\ probe.op = "call"
    /\ probe.method = "SendMessage"
    /\ ~probe.was
    /\ Len(requests) > 0
    /\ probe.err = PlainError("not connected to Discord")

(***************************************************************************)
(* Deleting a message.                                                       *)
(***************************************************************************)
\* The number, among the session calls of the execution, of the call at i
SessionNumber(calls, i) ==
    Cardinality({j \in 1..i : calls[j][1] = "session"})

Deletes(calls) ==
    {i \in 1..Len(calls) : calls[i][1] = "session" /\ calls[i][2] = "ChannelMessageDelete"}

Gated == probe.op = "gated" /\ probe.err.kind # "error"

GateViews == HoldsBit(probe.world.mask, PermissionViewChannel)

HasStringMessageId ==
    Has(probe.extra, "message_id") /\ probe.extra.message_id.k = "string"

\* C36: the gate makes the VIEW_CHANNEL check first, whatever the operation,
\* and a mask without VIEW_CHANNEL is denied by it, naming VIEW_CHANNEL, with
\* no other check made; an operation name that is none of the five known
\* ones passes whenever VIEW_CHANNEL is held, with no other check made; and
\* edit_message and delete_message without a string message_id are denied
\* naming MESSAGE_ID_REQUIRED when VIEW_CHANNEL is held.
ViewChannelFirst ==
    /\ probe.op = "gated" => probe.calls[1] = <<"check", "view_channel">>
    /\ (Gated /\ ~GateViews)
          => /\ probe.err.kind = "perm"
             /\ probe.err.permission = "VIEW_CHANNEL"
             /\ probe.err.operation = "view_channel"
             /\ CheckCalls(probe.calls) = {1}
    /\ (Gated /\ GateViews /\ probe.operation = "pin_message")
          => probe.err = NoErr /\ CheckCalls(probe.calls) = {1}
    /\ (Gated /\ GateViews /\ probe.operation \in {"edit_message", "delete_message"}
           /\ ~HasStringMessageId)
          => /\ probe.err.kind = "perm"
             /\ probe.err.permission = "MESSAGE_ID_REQUIRED"
             /\ probe.err.operation = probe.operation
             /\ CheckCalls(probe.calls) = {1}

\* An operation the gate does not know passed under VIEW_CHANNEL alone
UnknownOperationPasses ==
    /\ probe.op = "gated"
    /\ probe.operation = "pin_message"
    /\ probe.world.mask = PermissionViewChannel
    /\ probe.err = NoErr

(***************************************************************************)
(* ValidateMessageOperation: the capabilities asked for on a condition.      *)
(***************************************************************************)
GateHolds(b) == HoldsBit(probe.world.mask, b)

TtsRequested == Has(probe.extra, "tts") /\ probe.extra.tts = BoolV(TRUE)

ExternalEmojiGiven == Has(probe.extra, "emoji") /\ probe.extra.emoji = StrV(CustomEmoji)

\* C37: send_message with tts true passes the gate exactly when the mask has
\* VIEW_CHANNEL, SEND_MESSAGES and SEND_TTS_MESSAGES, and with tts false or
\* absent exactly when it has VIEW_CHANNEL and SEND_MESSAGES; add_reaction
\* with a custom emoji passes exactly when the mask has VIEW_CHANNEL,
\* ADD_REACTIONS and USE_EXTERNAL_EMOJIS, and with any other emoji or none
\* exactly when it has VIEW_CHANNEL and ADD_REACTIONS.
ConditionalCapabilities ==
    /\ (Gated /\ probe.operation = "send_message")
          => (probe.err = NoErr
                <=> /\ GateHolds(PermissionViewChannel)
                    /\ GateHolds(PermissionSendMessages)
                    /\ TtsRequested => GateHolds(PermissionSendTTSMessages))
    /\ (Gated /\ probe.operation = "add_reaction")
          => (probe.err = NoErr
                <=> /\ GateHolds(PermissionViewChannel)
                    /\ GateHolds(PermissionAddReactions)
                    /\ ExternalEmojiGiven => GateHolds(PermissionUseExternalEmojis))

\* A text-to-speech message was refused for want of SEND_TTS_MESSAGES alone
TtsDeniedWithoutCapability ==
    /\ probe.op = "gated"
    /\ probe.operation = "send_message"
    /\ TtsRequested
    /\ probe.world.mask = PermissionViewChannel + PermissionSendMessages
    /\ probe.err.kind = "perm"
    /\ probe.err.permission = "SEND_TTS_MESSAGES"

(***************************************************************************)
(* get_channel_info and the default of include_permissions.                  *)
(***************************************************************************)
\* get_channel_info returned the channel, with nothing failing on the way
ChannelInfoReturned ==
    /\ probe.op = "executed"
    /\ probe.handler.name = "get_channel_info"
    /\ probe.result.category = "success"
    /\ probe.fails = {}
    /\ probe.reqs = <<>>

\* include_permissions as the schema reads the call: the argument, or the
\* schema's default when the call omits it
PermissionsAsked ==
    IF Has(probe.args, "include_permissions") THEN probe.args.include_permissions.b
    ELSE ToolSchemas.get_channel_info.properties.include_permissions.default

ChannelInfoFlags ==
    [view_channel |-> PermissionViewChannel, send_messages |-> PermissionSendMessages,
     send_tts_messages |-> PermissionSendTTSMessages,
     manage_messages |-> PermissionManageMessages,
     read_message_history |-> PermissionReadMessageHistory,
     add_reactions |-> PermissionAddReactions,
     use_external_emojis |-> PermissionUseExternalEmojis,
     attach_files |-> PermissionAttachFiles, embed_links |-> PermissionEmbedLinks,
     mention_everyone |-> PermissionMentionEveryone]

\* C38: a get_channel_info call that omits include_permissions or passes
\* true returns the capability map, one boolean per well-known capability
\* that says whether its bit is set in the resolved mask; only a call that
\* passes false returns the channel without it.
IncludePermissionsDefault ==
    ChannelInfoReturned
      => LET data == probe.result.detail.data
         IN /\ Has(data, "permissions") <=> PermissionsAsked
            /\ Has(data, "permissions")
                  => /\ DOMAIN data.permissions = DOMAIN ChannelInfoFlags
                     /\ \A k \in DOMAIN ChannelInfoFlags :
                           data.permissions[k]
                             = HoldsBit(probe.world.mask, ChannelInfoFlags[k])

====
